---- MODULE Spec2Model ----
(***************************************************************************)
(* BRACU Learning Hub: the entity store (dashboard/models.py) and the      *)
(* request handlers that write to it (dashboard/views.py).                 *)
(*                                                                         *)
(* The store is a set of tables.  A table that a unique constraint guards  *)
(* is a bag (multiset) of rows, the surrogate primary key left out: two    *)
(* rows for the same (user, material) pair are two copies in the bag, and  *)
(* the constraint is something the store has to enforce.                   *)
(*                                                                         *)
(* Handlers are modelled twice over the same store operators: as one       *)
(* atomic action per request (requests that do not overlap), and as the    *)
(* sequence of queries one request issues (requests served concurrently by *)
(* separate workers, every query its own autocommit transaction).          *)
(***************************************************************************)
EXTENDS Integers, Sequences, FiniteSets, Bags, TLC

\* ------------------------------------------------------------------ bounds
\* Material primary keys ever handed out (keys are not reused after a delete).
MaxMaterials == 2
\* Study group primary keys ever handed out.
MaxGroups == 2
\* material_detail requests per material that the model follows.
MaxViews == 3
\* Post primary keys ever handed out.
MaxPosts == 1
\* SpecSite: rows in the store plus views counted.
MaxRows == 2
\* SpecSearch: materials in the store.
MaxListed == 11

\* ------------------------------------------------------- fixed populations
\* Registered accounts (django.contrib.auth User rows).
Users == {"u1", "u2"}
\* Subject rows, and one primary key that names no subject.
Subjects == {"s1"}
NoSubject == "s9"
\* A material primary key that was never handed out.
Pks == 1..MaxMaterials
BadPk == MaxMaterials + 1
GroupPks == 1..MaxGroups
\* Request workers of the concurrent specifications.
Procs == {"p1", "p2"}

\* Python's None / SQL NULL, and the absence of a row under a primary key.
Null == "<null>"
NoRow == [absent |-> TRUE]
\* A primary key whose row was deleted: it is not handed out again.
Gone == [gone |-> TRUE]

\* SavedMaterial.note values: NULL (the default) or some text set through the admin.
Notes == {Null, "exam"}

\* Post primary keys ever handed out.
PostPks == 1..MaxPosts

\* The e-mail address each registered account was created with.
EmailOf(u) == IF u = "u1" THEN "e1" ELSE IF u = "u2" THEN "e2" ELSE "e3"

\* Profile.cgpa: NULL, or <<n>> for a grade of n tenths of a point (4.0 is <<40>>).
NoCgpa == <<>>

\* A new Profile: Profile.objects.create(user=instance), every other field at its
\* default (cgpa NULL, credits_completed 0, reputation 0).
NewProfile(u) == [user |-> u, cgpa |-> NoCgpa, credits_completed |-> 0, reputation |-> 0]

VARIABLES
  material,     \* Material table: primary key -> row or NoRow
  nextPk,       \* next Material primary key
  ratings,      \* Rating table: bag of [material, user, score]
  saved,        \* SavedMaterial table: bag of [user, material, note]
  groups,       \* StudyGroup table: primary key -> row or NoRow
  memberships,  \* StudyGroup.members through table: bag of [group, user]
  accounts,     \* auth User table: set of [username, email]
  profiles,     \* Profile table: bag of [user, cgpa, credits_completed, reputation]
  subjects,     \* Subject table: the primary keys of the rows
  comments,     \* Comment table: bag of [material, user, content]
  posts,        \* Post table: primary key -> row or NoRow
  postComments, \* PostComment table: bag of [post, user, content]
  hits,         \* per material: material_detail requests that found it, so far
  rawSaved,     \* users whose Profile was saved outside ProfileUpdateForm, so far
  last,         \* the last completed request: what, the response, the store before it
  pc,           \* concurrent specifications: each worker's position
  loc           \* concurrent specifications: each worker's request and locals

dbvars == <<material, nextPk, ratings, saved, groups, memberships>>
\* The tables and history variables beside the six of dbvars, comments and hits.
more == <<accounts, profiles, subjects, posts, postComments, rawSaved>>
vars == <<material, nextPk, ratings, saved, groups, memberships, hits, last, pc, loc, comments, more>>

\* ------------------------------------------------------------ store helpers
\* The store as one value (what a request found before it ran).
Snapshot ==
  [material |-> material, ratings |-> ratings, saved |-> saved,
   groups |-> groups, memberships |-> memberships,
   accounts |-> accounts, profiles |-> profiles, subjects |-> subjects,
   comments |-> comments, posts |-> posts, postComments |-> postComments]

\* INSERT of one row; DELETE of the rows in a set.
Insert(table, row) == table (+) SetToBag({row})
DeleteRows(table, rows) == [r \in (DOMAIN table) \ rows |-> table[r]]

\* COUNT(*) over the rows of a table that are in a set.
CountRows(table, rows) == BagCardinality([r \in (DOMAIN table) \cap rows |-> table[r]])

\* get_object_or_404(Material, pk=pk)
MaterialExists(mat, pk) == pk \in DOMAIN mat /\ mat[pk] # NoRow

\* Rows of a table that refer to one (user, material) pair.
PairRows(table, u, m) == {r \in DOMAIN table : r.user = u /\ r.material = m}

\* Material.objects.filter(pk=pk, uploaded_by=u): the ownership-filtered lookup.
OwnedBy(mat, pk, u) == MaterialExists(mat, pk) /\ mat[pk].uploaded_by = u

\* on_delete=models.CASCADE on a foreign key to Material.
CascadeMaterial(table, pk) == DeleteRows(table, {r \in DOMAIN table : r.material = pk})

\* ------------------------------------------------------------- request log
Methods == {"GET", "POST"}

\* request.POST of a GET request is empty: only a POST carries submitted data.
Submitted(method, values, nothing) == IF method = "POST" THEN values ELSE {nothing}

\* A request: the handler, the logged-in user, the primary key in the URL, the
\* method (Null for a handler that does not look at it) and what the handler
\* reads from the submitted data.
Req(op, u, pk, method, arg) ==
  [op |-> op, user |-> u, pk |-> pk, method |-> method, arg |-> arg]

\* Two requests to the same handler by the same user on the same primary key
\* (the URLs of material_upload, study_group_create, register, profile_edit and
\* post_create carry none).
SameTarget(r1, r2) ==
  /\ r1.op = r2.op
  /\ r1.op \notin {"material_upload", "study_group_create", "register", "profile_edit",
                  "post_create"}
  /\ r1.user = r2.user
  /\ r1.pk = r2.pk

\* The record of a completed request: the request, the response and the store it
\* found; and, when the request before it had the same target and was answered
\* with a redirect, that one's record.
LoggedMsg(r, response, message) ==
  last' = [req |-> r, resp |-> response, msg |-> message, pre |-> Snapshot,
           prev |-> IF last # NoRow /\ SameTarget(last.req, r) /\ last.resp = "redirect"
                    THEN [req |-> last.req, resp |-> last.resp, pre |-> last.pre]
                    ELSE NoRow]

Logged(r, response) == LoggedMsg(r, response, Null)

\* render(request, template, {'form': form}): the form is unbound on a GET, and
\* bound, carrying its errors, on a POST that did not validate.
Rendered(r) == LoggedMsg(r, "render", IF r.method = "POST" THEN "form_errors" ELSE Null)

Idle == [p \in Procs |-> "idle"]
NoLocals == [p \in Procs |-> NoRow]

Init ==
  /\ material = [pk \in Pks |-> NoRow]
  /\ nextPk = 1
  /\ ratings = EmptyBag
  /\ saved = EmptyBag
  /\ groups = [g \in GroupPks |-> NoRow]
  /\ memberships = EmptyBag
  /\ accounts = {[username |-> u, email |-> EmailOf(u)] : u \in Users}
  /\ profiles = SetToBag({NewProfile(u) : u \in Users})
  /\ subjects = Subjects
  /\ comments = EmptyBag
  /\ posts = [k \in PostPks |-> NoRow]
  /\ postComments = EmptyBag
  /\ hits = [pk \in Pks |-> 0]
  /\ rawSaved = {}
  /\ last = NoRow
  /\ pc = Idle
  /\ loc = NoLocals

\* ------------------------------------------------- material upload / delete
\* Material.MATERIAL_TYPES
MaterialTypes == {"note", "slide", "assignment", "book", "question", "other"}

\* A Material row as it is inserted: the uploader, the fields of the form, and
\* reports, downloads and views at their default, 0.
MaterialRow(u, title, materialType, tags, approved) ==
  [uploaded_by |-> u, title |-> title, description |-> <<"d">>, file |-> "f",
   subject |-> "s1", material_type |-> materialType, tags |-> tags,
   is_approved |-> approved, reports |-> 0, downloads |-> 0, views |-> 0]

\* material.save() of a new Material: the next primary key, the requester as
\* uploaded_by, the fields of the form, is_approved and the counters at their
\* defaults (True, 0).
InsertMaterial(u) ==
  /\ nextPk \in Pks
  /\ material' = [material EXCEPT ![nextPk] = MaterialRow(u, <<"a">>, "note", <<>>, TRUE)]
  /\ nextPk' = nextPk + 1

\* views.material_upload: a valid POST inserts a Material owned by the requester
\* (views, downloads and reports default to 0); anything else re-renders the form.
MaterialUpload(u, method, formValid) ==
  LET r == Req("material_upload", u, Null, method, formValid) IN
  IF method = "POST" /\ formValid
  THEN /\ InsertMaterial(u)
       /\ Logged(r, "redirect")
       /\ UNCHANGED <<ratings, saved, groups, memberships, pc, loc, hits, comments, more>>
  ELSE /\ Rendered(r)
       /\ UNCHANGED <<dbvars, pc, loc, hits, comments, more>>

\* Material.delete(): the row and, by cascade, its ratings, saved records and
\* comments.
DeleteMaterial(pk) ==
  /\ material' = [material EXCEPT ![pk] = NoRow]
  /\ ratings' = CascadeMaterial(ratings, pk)
  /\ saved' = CascadeMaterial(saved, pk)
  /\ comments' = CascadeMaterial(comments, pk)

\* views.material_delete: only the uploader finds the material; POST deletes it.
MaterialDelete(u, pk, method) ==
  LET r == Req("material_delete", u, pk, method, Null) IN
  IF ~OwnedBy(material, pk, u)
  THEN /\ Logged(r, "not_found")
       /\ UNCHANGED <<dbvars, pc, loc, hits, comments, more>>
  ELSE IF method = "POST"
  THEN /\ DeleteMaterial(pk)
       /\ Logged(r, "redirect")
       /\ UNCHANGED <<nextPk, groups, memberships, pc, loc, hits, more>>
  ELSE /\ Logged(r, "render")
       /\ UNCHANGED <<dbvars, pc, loc, hits, comments, more>>

\* --------------------------------------------------------------- save toggle
\* SavedMaterial.objects.filter(user=u, material=m).exists()
SavedExists(table, u, m) == PairRows(table, u, m) # {}

\* (mutant) the delete filters on the user alone.
SavedDeleteWholeUser(table, u, m) == DeleteRows(table, {r \in DOMAIN table : r.user = u})

\* SavedMaterial.objects.filter(user=u, material=m).delete()
SavedDelete(table, u, m) == DeleteRows(table, PairRows(table, u, m))

\* (mutant) SavedMaterial without its unique_together.
SavedInsertCheckNoUnique(table, mat, u, m) ==
  IF ~MaterialExists(mat, m) THEN "foreign_key" ELSE "ok"

\* The store's answer to an INSERT into SavedMaterial: unique_together =
\* ('user', 'material') must hold and the foreign key must name a Material row,
\* otherwise IntegrityError and no row.  "ok" when the row is accepted.
SavedInsertCheck(table, mat, u, m) ==
  IF PairRows(table, u, m) # {} THEN "unique"
  ELSE IF ~MaterialExists(mat, m) THEN "foreign_key"
  ELSE "ok"

\* SavedMaterial.objects.create(user=u, material=m): note is left at its default.
SavedCreate(table, mat, u, m) ==
  LET check == SavedInsertCheck(table, mat, u, m) IN
  IF check # "ok"
  THEN [ok |-> FALSE, exc |-> check, table |-> table]
  ELSE [ok |-> TRUE, exc |-> Null,
        table |-> Insert(table, [user |-> u, material |-> m, note |-> Null])]

\* (mutant) an idempotent "set saved": a missing record is created, an existing
\* one is left alone.
SaveToggleSetOnly(table, mat, u, m) ==
  IF SavedExists(table, u, m)
  THEN [ok |-> TRUE, exc |-> Null, table |-> table]
  ELSE SavedCreate(table, mat, u, m)

\* The body of views.save_material after the material was found, as one
\* function of the table: an existing record is deleted, a missing one created.
SaveToggle(table, mat, u, m) ==
  IF SavedExists(table, u, m)
  THEN [ok |-> TRUE, exc |-> Null, table |-> SavedDelete(table, u, m)]
  ELSE SavedCreate(table, mat, u, m)

\* views.save_material, a whole request (the request method is not looked at).
SaveMaterial(u, pk) ==
  LET r == Req("save_material", u, pk, Null, Null) IN
  IF ~MaterialExists(material, pk)
  THEN /\ Logged(r, "not_found")
       /\ UNCHANGED <<dbvars, pc, loc, hits, comments, more>>
  ELSE LET t == SaveToggle(saved, material, u, pk) IN
       /\ saved' = t.table
       /\ Logged(r, IF t.ok THEN "redirect" ELSE "error")
       /\ UNCHANGED <<material, nextPk, ratings, groups, memberships, pc, loc, hits, comments, more>>

\* admin.site.register(SavedMaterial): the admin change form edits a record's note.
AdminSetNote(row, note) ==
  /\ BagIn(row, saved)
  /\ row.note # note
  /\ saved' = Insert(saved (-) SetToBag({row}), [row EXCEPT !.note = note])
  /\ Logged(Req("admin_saved_note", row.user, row.material, "POST", note), "redirect")
  /\ UNCHANGED <<material, nextPk, ratings, groups, memberships, pc, loc, hits, comments, more>>

\* Requests on the save toggle, one at a time.
NextSave ==
  \/ \E u \in Users, method \in Methods : \E formValid \in Submitted(method, BOOLEAN, FALSE) :
        MaterialUpload(u, method, formValid)
  \/ \E u \in Users, pk \in Pks \cup {BadPk}, method \in Methods : MaterialDelete(u, pk, method)
  \/ \E u \in Users, pk \in Pks \cup {BadPk} : SaveMaterial(u, pk)
  \/ \E row \in BagToSet(saved), note \in Notes : AdminSetNote(row, note)

SpecSave == Init /\ [][NextSave]_vars

\* ------------------------------------------- save toggle, concurrent requests
\* A worker between requests keeps what it served last: the handler, the user,
\* the primary key, the response and the exception behind an error response.
Answer(r, response, exception) ==
  [op |-> r.op, user |-> r.user, pk |-> r.pk, resp |-> response, exc |-> exception]

Served(p, op) == pc[p] = "idle" /\ loc[p] # NoRow /\ loc[p].op = op

\* Another worker's material_upload / material_delete, between two queries of
\* the requests followed here (each is a single write to the store).
ConcMaterialUpload(u) ==
  /\ InsertMaterial(u)
  /\ UNCHANGED <<ratings, saved, groups, memberships, last, pc, loc, hits, comments, more>>

ConcMaterialDelete(u, pk) ==
  /\ OwnedBy(material, pk, u)
  /\ DeleteMaterial(pk)
  /\ UNCHANGED <<nextPk, groups, memberships, last, pc, loc, hits, more>>

\* save_material, first query: get_object_or_404(Material, pk=pk).
SaveBegin(p, u, pk) ==
  LET r == Req("save_material", u, pk, Null, Null) IN
  /\ pc[p] = "idle"
  /\ IF MaterialExists(material, pk)
     THEN /\ pc' = [pc EXCEPT ![p] = "save_exists"]
          /\ loc' = [loc EXCEPT ![p] = [req |-> r]]
     ELSE /\ pc' = pc
          /\ loc' = [loc EXCEPT ![p] = Answer(r, "not_found", Null)]
  /\ UNCHANGED <<dbvars, last, hits, comments, more>>

\* save_material, second query: the .exists() of the if.
SaveCheck(p) ==
  /\ pc[p] = "save_exists"
  /\ pc' = [pc EXCEPT ![p] = "save_write"]
  /\ loc' = [loc EXCEPT ![p] =
              [req |-> loc[p].req,
               exists |-> SavedExists(saved, loc[p].req.user, loc[p].req.pk)]]
  /\ UNCHANGED <<dbvars, last, hits, comments, more>>

\* save_material, third query: the DELETE of one branch or the INSERT of the
\* other.  An IntegrityError of the INSERT is not caught: the response is an error.
SaveWrite(p) ==
  LET u == loc[p].req.user
      m == loc[p].req.pk
      t == IF loc[p].exists
           THEN [ok |-> TRUE, exc |-> Null, table |-> SavedDelete(saved, u, m)]
           ELSE SavedCreate(saved, material, u, m) IN
  /\ pc[p] = "save_write"
  /\ saved' = t.table
  /\ pc' = [pc EXCEPT ![p] = "idle"]
  /\ loc' = [loc EXCEPT ![p] =
              Answer(loc[p].req, IF t.ok THEN "redirect" ELSE "error", t.exc)]
  /\ UNCHANGED <<material, nextPk, ratings, groups, memberships, last, hits, comments, more>>

NextSaveConc ==
  \/ \E u \in Users : ConcMaterialUpload(u)
  \/ \E u \in Users, pk \in Pks : ConcMaterialDelete(u, pk)
  \/ \E p \in Procs, u \in Users, pk \in Pks \cup {BadPk} : SaveBegin(p, u, pk)
  \/ \E p \in Procs : SaveCheck(p)
  \/ \E p \in Procs : SaveWrite(p)

SpecSaveConc == Init /\ [][NextSaveConc]_vars

\* ------------------------------------------------------------ rating upsert
\* What request.POST.get('score') can be: None (no such field) or a text, written
\* as the sequence of its characters.
ScoreTexts == {<<>>, <<"x">>, <<"3">>, <<"5">>}
NoText == <<"None">>
ScoreInputs == {NoText} \cup ScoreTexts

\* (mutant) the test "is not None" in place of the truth of the text.
TruthyUnlessNone(text) == text # NoText

\* Python truth of request.POST.get('score'): None and '' are false.
Truthy(text) == text # NoText /\ text # <<>>

Digits == <<"0", "1", "2", "3", "4", "5", "6", "7", "8", "9">>
IsDigit(c) == \E d \in 1..10 : Digits[d] = c
DigitValue(c) == (CHOOSE d \in 1..10 : Digits[d] = c) - 1

\* int(text) as IntegerField.get_prep_value calls it: an optional sign and one or
\* more decimal digits, anything else raises ValueError.
IsIntText(text) ==
  LET body == IF text # <<>> /\ text[1] \in {"+", "-"} THEN Tail(text) ELSE text IN
  /\ body # <<>>
  /\ \A i \in 1..Len(body) : IsDigit(body[i])

RECURSIVE DigitsValue(_)
DigitsValue(body) ==
  IF body = <<>> THEN 0
  ELSE 10 * DigitsValue(SubSeq(body, 1, Len(body) - 1)) + DigitValue(body[Len(body)])

IntOf(text) ==
  IF text[1] = "-" THEN 0 - DigitsValue(Tail(text))
  ELSE IF text[1] = "+" THEN DigitsValue(Tail(text))
  ELSE DigitsValue(text)

\* (mutant) Rating without its unique_together.
RatingInsertCheckNoUnique(table, mat, u, m) ==
  IF ~MaterialExists(mat, m) THEN "foreign_key" ELSE "ok"

\* The store's answer to an INSERT into Rating: unique_together = ('material',
\* 'user') and the foreign key to Material, otherwise IntegrityError.
RatingInsertCheck(table, mat, u, m) ==
  IF PairRows(table, u, m) # {} THEN "unique"
  ELSE IF ~MaterialExists(mat, m) THEN "foreign_key"
  ELSE "ok"

\* UPDATE of the score of the pair's rating (created_at is auto_now_add: kept).
RatingUpdate(table, u, m, score) ==
  LET rows == PairRows(table, u, m)
      n == CountRows(table, rows) IN
  IF n = 0 THEN table
  ELSE DeleteRows(table, rows) (+) [r \in {[material |-> m, user |-> u, score |-> score]} |-> n]

RatingInsert(table, u, m, score) ==
  Insert(table, [material |-> m, user |-> u, score |-> score])

\* (mutant) get_or_create in place of update_or_create: an existing rating keeps
\* its score.
RatingGetOrCreate(table, mat, u, m, score) ==
  IF PairRows(table, u, m) # {} THEN table ELSE RatingInsert(table, u, m, score)

\* Rating.objects.update_or_create(user=u, material=m, defaults={'score': score})
\* with nothing running beside it: the pair's rating gets the score, a missing one
\* is created with it.
RatingUpdateOrCreate(table, mat, u, m, score) ==
  IF PairRows(table, u, m) # {}
  THEN RatingUpdate(table, u, m, score)
  ELSE IF RatingInsertCheck(table, mat, u, m) = "ok"
  THEN RatingInsert(table, u, m, score)
  ELSE table

\* views.rate_material, a whole request.
RateMaterial(u, pk, method, score) ==
  LET r == Req("rate_material", u, pk, method, score) IN
  IF ~MaterialExists(material, pk)
  THEN /\ Logged(r, "not_found")
       /\ UNCHANGED <<dbvars, pc, loc, hits, comments, more>>
  ELSE IF method = "POST" /\ Truthy(score)
  THEN IF IsIntText(score)
       THEN /\ ratings' = RatingUpdateOrCreate(ratings, material, u, pk, IntOf(score))
            /\ Logged(r, "redirect")
            /\ UNCHANGED <<material, nextPk, saved, groups, memberships, pc, loc, hits, comments, more>>
       ELSE /\ Logged(r, "error")
            /\ UNCHANGED <<dbvars, pc, loc, hits, comments, more>>
  ELSE /\ Logged(r, "redirect")
       /\ UNCHANGED <<dbvars, pc, loc, hits, comments, more>>

\* Requests on the ratings, one at a time.
NextRate ==
  \/ \E u \in Users, method \in Methods : \E formValid \in Submitted(method, BOOLEAN, FALSE) :
        MaterialUpload(u, method, formValid)
  \/ \E u \in Users, pk \in Pks \cup {BadPk}, method \in Methods : MaterialDelete(u, pk, method)
  \/ \E u \in Users, pk \in Pks \cup {BadPk}, method \in Methods :
       \E score \in Submitted(method, ScoreInputs, NoText) : RateMaterial(u, pk, method, score)

SpecRate == Init /\ [][NextRate]_vars

\* ------------------------------------------ rating upsert, concurrent requests
\* Scores submitted by the concurrent requests followed here.
ConcScores == {<<"3">>, <<"5">>}

\* rate_material, first query: get_object_or_404(Material, pk=pk); without a
\* POSTed score the request is over.
RateBegin(p, u, pk, method, score) ==
  LET r == Req("rate_material", u, pk, method, score) IN
  /\ pc[p] = "idle"
  /\ IF ~MaterialExists(material, pk)
     THEN /\ pc' = pc
          /\ loc' = [loc EXCEPT ![p] = Answer(r, "not_found", Null)]
     ELSE IF method = "POST" /\ Truthy(score)
     THEN /\ pc' = [pc EXCEPT ![p] = "rate_get"]
          /\ loc' = [loc EXCEPT ![p] = [req |-> r]]
     ELSE /\ pc' = pc
          /\ loc' = [loc EXCEPT ![p] = Answer(r, "redirect", Null)]
  /\ UNCHANGED <<dbvars, last, hits, comments, more>>

\* update_or_create, its lookup: Rating.objects.get(user=u, material=m).
RateGet(p) ==
  /\ pc[p] = "rate_get"
  /\ pc' = [pc EXCEPT ![p] = "rate_write"]
  /\ loc' = [loc EXCEPT ![p] =
              [req |-> loc[p].req,
               found |-> PairRows(ratings, loc[p].req.user, loc[p].req.pk) # {}]]
  /\ UNCHANGED <<dbvars, last, hits, comments, more>>

\* update_or_create, its write.  A rating that was found is saved with the new
\* score (an error if it is gone by now).  Otherwise the INSERT: when the unique
\* constraint rejects it, get_or_create catches the IntegrityError and fetches the
\* row the other request created, which is then saved with the new score; a
\* missing Material is an IntegrityError that is raised.  A score that is no
\* number is a ValueError.
RateWrite(p) ==
  LET u == loc[p].req.user
      m == loc[p].req.pk
      score == loc[p].req.arg
      done(response, exception) ==
        /\ pc' = [pc EXCEPT ![p] = "idle"]
        /\ loc' = [loc EXCEPT ![p] = Answer(loc[p].req, response, exception)] IN
  /\ pc[p] = "rate_write"
  /\ IF ~IsIntText(score)
     THEN ratings' = ratings /\ done("error", "ValueError")
     ELSE IF loc[p].found
     THEN IF PairRows(ratings, u, m) # {}
          THEN ratings' = RatingUpdate(ratings, u, m, IntOf(score)) /\ done("redirect", Null)
          ELSE ratings' = ratings /\ done("error", "gone")
     ELSE LET check == RatingInsertCheck(ratings, material, u, m) IN
          IF check = "ok"
          THEN ratings' = RatingInsert(ratings, u, m, IntOf(score)) /\ done("redirect", Null)
          ELSE IF check = "unique"
          THEN /\ ratings' = ratings
               /\ pc' = pc
               /\ loc' = [loc EXCEPT ![p] = [req |-> loc[p].req, found |-> TRUE]]
          ELSE ratings' = ratings /\ done("error", check)
  /\ UNCHANGED <<material, nextPk, saved, groups, memberships, last, hits, comments, more>>

NextRateConc ==
  \/ \E u \in Users : ConcMaterialUpload(u)
  \/ \E u \in Users, pk \in Pks : ConcMaterialDelete(u, pk)
  \/ \E p \in Procs, u \in Users, pk \in Pks \cup {BadPk}, score \in ConcScores :
        RateBegin(p, u, pk, "POST", score)
  \/ \E p \in Procs : RateGet(p)
  \/ \E p \in Procs : RateWrite(p)

SpecRateConc == Init /\ [][NextRateConc]_vars

\* ---------------------------------------------------- rating upsert: claims
RatingCount(table, u, m) == CountRows(table, PairRows(table, u, m))

\* C1: in every state of every interleaving of rate_material requests there is at
\* most one Rating row per (material, user) pair, and exactly one for the pair of
\* a request that was answered with the redirect after submitting a score (every
\* request of SpecRateConc POSTs one), for as long as the material exists.
C1_OneRatingPerPair ==
  /\ \A u \in Users, m \in Pks : RatingCount(ratings, u, m) <= 1
  /\ \A p \in Procs :
       (/\ Served(p, "rate_material")
        /\ loc[p].resp = "redirect"
        /\ MaterialExists(material, loc[p].pk))
         => RatingCount(ratings, loc[p].user, loc[p].pk) = 1

\* C1 witness: one request has rated the pair while the other, which had looked
\* the pair up before and found nothing, is about to INSERT a second row.
C1_Witness ==
  \E p \in Procs, q \in Procs :
    /\ Served(q, "rate_material") /\ loc[q].resp = "redirect"
    /\ pc[p] = "rate_write" /\ ~loc[p].found
    /\ loc[p].req.user = loc[q].user /\ loc[p].req.pk = loc[q].pk
    /\ RatingCount(ratings, loc[q].user, loc[q].pk) = 1

\* The last two requests were rate_material POSTs by u on material m, one right
\* after the other, each submitting a number, and the first was answered with
\* the redirect.
TwoRates(u, m) ==
  /\ last # NoRow
  /\ last.req.op = "rate_material" /\ last.req.user = u /\ last.req.pk = m
  /\ last.req.method = "POST" /\ IsIntText(last.req.arg)
  /\ last.prev # NoRow
  /\ last.prev.req.method = "POST" /\ IsIntText(last.prev.req.arg)

\* C2: when u submits score a and then score b for m, the repeat is answered with
\* the redirect like the first, the pair has exactly one Rating row and it holds
\* b; when b = a the store is as the first submission left it.
C2_RateOverwrites ==
  \A u \in Users, m \in Pks :
    TwoRates(u, m) =>
      LET a == IntOf(last.prev.req.arg)
          b == IntOf(last.req.arg) IN
      /\ last.resp = "redirect"
      /\ PairRows(last.pre.ratings, u, m) = {[material |-> m, user |-> u, score |-> a]}
      /\ PairRows(ratings, u, m) = {[material |-> m, user |-> u, score |-> b]}
      /\ RatingCount(ratings, u, m) = 1
      /\ (a = b => ratings = last.pre.ratings)

\* C2 witness: u1 rated material 1 with 3 and then with 5; the one row holds 5.
C2_Witness ==
  /\ TwoRates("u1", 1)
  /\ last.prev.req.arg = <<"3">> /\ last.req.arg = <<"5">>
  /\ PairRows(last.pre.ratings, "u1", 1) = {[material |-> 1, user |-> "u1", score |-> 3]}
  /\ PairRows(ratings, "u1", 1) = {[material |-> 1, user |-> "u1", score |-> 5]}
  /\ RatingCount(ratings, "u1", 1) = 1

\* The last request was rate_material on an existing material.
Rated ==
  /\ last # NoRow /\ last.req.op = "rate_material"
  /\ MaterialExists(last.pre.material, last.req.pk)

\* The ratings other than that of user u on material m.
OtherRatings(table, u, m) == DeleteRows(table, PairRows(table, u, m))

\* C30: a rate_material request that is no POST, or a POST without a score or
\* with an empty one, creates and changes no Rating and is answered with the
\* redirect; and no rate_material request changes a rating of another user or
\* of another material, nor anything but ratings.
C30_RatesOnlyOnPostAndOnlyOwn ==
  /\ Rated /\ (last.req.method # "POST" \/ last.req.arg \in {NoText, <<>>})
       => last.resp = "redirect" /\ ratings = last.pre.ratings
  /\ Rated =>
       /\ OtherRatings(ratings, last.req.user, last.req.pk)
            = OtherRatings(last.pre.ratings, last.req.user, last.req.pk)
       /\ material = last.pre.material
       /\ saved = last.pre.saved

\* u1 has posted an empty score on material 1, which u1 had rated 3 and u2 had
\* rated 5: both ratings are as they were.
C30_Witness ==
  /\ Rated /\ last.req.user = "u1" /\ last.req.pk = 1
  /\ last.req.method = "POST" /\ last.req.arg = <<>>
  /\ last.resp = "redirect"
  /\ PairRows(ratings, "u1", 1) = {[material |-> 1, user |-> "u1", score |-> 3]}
  /\ PairRows(ratings, "u2", 1) = {[material |-> 1, user |-> "u2", score |-> 5]}

\* ----------------------------------------------------- save toggle: claims
\* The last two requests were save_material by u on material m, one right after
\* the other, and the first of them found the material.
TwoSaves(u, m) ==
  /\ last # NoRow
  /\ last.req.op = "save_material" /\ last.req.user = u /\ last.req.pk = m
  /\ last.prev # NoRow
  /\ last.prev.resp = "redirect"

\* The rows of a SavedMaterial table outside the pair (u, m).
OtherSaved(table, u, m) == DeleteRows(table, PairRows(table, u, m))

\* C3: from "u has not saved m", two successive save_material requests by u on m
\* end in "not saved": the first creates the one SavedMaterial(u, m) record, the
\* second deletes it, both redirect, and no other record is touched.
C3_SaveTwiceFromNotSaved ==
  \A u \in Users, m \in Pks :
    (TwoSaves(u, m) /\ ~SavedExists(last.prev.pre.saved, u, m)) =>
      /\ CountRows(last.pre.saved, PairRows(last.pre.saved, u, m)) = 1
      /\ last.resp = "redirect"
      /\ ~SavedExists(saved, u, m)
      /\ OtherSaved(last.pre.saved, u, m) = last.prev.pre.saved
      /\ saved = last.prev.pre.saved

\* C3 witness: the second of two toggles has just removed u1's record of material
\* 1 while u2's record of the same material is still there.
C3_Witness ==
  /\ TwoSaves("u1", 1)
  /\ ~SavedExists(last.prev.pre.saved, "u1", 1)
  /\ SavedExists(last.pre.saved, "u1", 1)
  /\ ~SavedExists(saved, "u1", 1)
  /\ SavedExists(saved, "u2", 1)

\* C4 as stated: from any state of the pair, two successive save_material
\* requests restore the SavedMaterial records, presence and note alike.
C4_SaveTwiceRestoresAll ==
  \A u \in Users, m \in Pks :
    TwoSaves(u, m) => saved = last.prev.pre.saved

\* C4 amended: two successive save_material requests restore the presence of the
\* (u, m) record and leave every other record as it was, but the record they end
\* with always has note NULL: a note the original record carried is lost.
C4_SaveTwiceRestoresPresence ==
  \A u \in Users, m \in Pks :
    TwoSaves(u, m) =>
      /\ SavedExists(saved, u, m) <=> SavedExists(last.prev.pre.saved, u, m)
      /\ CountRows(saved, PairRows(saved, u, m)) <= 1
      /\ \A r \in PairRows(saved, u, m) : r.note = Null
      /\ OtherSaved(saved, u, m) = OtherSaved(last.prev.pre.saved, u, m)
      /\ (\A r \in PairRows(last.prev.pre.saved, u, m) : r.note = Null)
            => saved = last.prev.pre.saved

\* C4 witness: a record that carried a note was toggled away and back, and is
\* there again without the note.
C4_Witness ==
  \E u \in Users, m \in Pks :
    /\ TwoSaves(u, m)
    /\ \E r \in PairRows(last.prev.pre.saved, u, m) : r.note # Null
    /\ \E r \in PairRows(saved, u, m) : r.note = Null
    /\ \E r \in DOMAIN OtherSaved(saved, u, m) : r.user = u

\* C5: in every state of every interleaving of save_material requests there is at
\* most one SavedMaterial row per (user, material) pair, and a worker whose INSERT
\* met an existing row of the pair got IntegrityError and added nothing.
C5_SavedUnique ==
  /\ \A u \in Users, m \in Pks : CountRows(saved, PairRows(saved, u, m)) <= 1
  /\ \A p \in Procs :
       (Served(p, "save_material") /\ loc[p].exc # Null) => loc[p].resp = "error"

\* C5 witness: a second INSERT for a pair was rejected by the unique constraint
\* and the pair still has its one row.
C5_Witness ==
  \E p \in Procs :
    /\ Served(p, "save_material")
    /\ loc[p].exc = "unique"
    /\ CountRows(saved, PairRows(saved, loc[p].user, loc[p].pk)) = 1

\* C6: a save_material request whose INSERT hit the unique constraint (the other
\* of two concurrent identical requests won) still completes with the redirect.
C6_UniqueViolationCompletesNormally ==
  \A p \in Procs :
    (Served(p, "save_material") /\ loc[p].exc = "unique") => loc[p].resp = "redirect"

\* --------------------------------------------------------------- study groups
\* max_members of study_group_create when the form sends none.
DefaultMaxMembers == 10

\* What request.POST.get('max_members', 10) can be: the default or a text.
MaxMemberTexts == {<<"0">>, <<"1">>, <<"2">>, <<"-", "1">>, <<"x">>}

\* The submitted study group forms: every field given (with each max_members),
\* one of name, description and subject left empty, and a subject that does not
\* exist.
GroupForm(name, description, subject, maxMembers) ==
  [name |-> name, description |-> description, subject |-> subject, max_members |-> maxMembers]

GroupForms ==
  {GroupForm("algo", "weekly", "s1", t) : t \in MaxMemberTexts \cup {NoText}}
    \cup {GroupForm("", "weekly", "s1", NoText), GroupForm("algo", "", "s1", NoText),
          GroupForm("algo", "weekly", "", NoText), GroupForm("algo", "weekly", NoSubject, NoText)}

NoForm == GroupForm("", "", "", NoText)

GroupExists(grp, g) == g \in DOMAIN grp /\ grp[g] \notin {NoRow, Gone}

\* The next StudyGroup primary key.
NextGroup == Cardinality({g \in GroupPks : groups[g] # NoRow}) + 1

\* study_group.members.all() and study_group.members.count()
Members(table, g) == {r.user : r \in {x \in DOMAIN table : x.group = g}}
MemberCount(table, g) == CountRows(table, {x \in DOMAIN table : x.group = g})

\* (mutant) add() without the look for users who are members already.
MemberAddAgain(table, g, u) == Insert(table, [group |-> g, user |-> u])

\* study_group.members.add(user): a row for the user unless there is one.
MemberAdd(table, g, u) ==
  IF u \in Members(table, g) THEN table ELSE Insert(table, [group |-> g, user |-> u])

\* (mutant) study_group_create without the add of the creator.
FirstMembersNone(table, g, u) == table

\* study_group.members.add(request.user) of study_group_create.
FirstMembers(table, g, u) == MemberAdd(table, g, u)

\* (mutant) the cap checked with <= .
HasRoomInclusive(count, maxMembers) == count <= maxMembers

\* study_group.members.count() < study_group.max_members
HasRoom(count, maxMembers) == count < maxMembers

\* views.study_group_create, a whole request.  max_members is stored as given
\* (int() of the text, ValueError when it is no number); the creator is added to
\* the members whatever max_members is.
StudyGroupCreate(u, method, form) ==
  LET r == Req("study_group_create", u, Null, method, form)
      maxText == form.max_members
      maxMembers == IF maxText = NoText THEN DefaultMaxMembers ELSE IntOf(maxText)
      g == NextGroup IN
  IF method = "POST" /\ form.name # "" /\ form.description # "" /\ form.subject # ""
  THEN IF form.subject \notin subjects
       THEN /\ Logged(r, "not_found")
            /\ UNCHANGED <<dbvars, pc, loc, hits, comments, more>>
       ELSE IF maxText # NoText /\ ~IsIntText(maxText)
       THEN /\ Logged(r, "error")
            /\ UNCHANGED <<dbvars, pc, loc, hits, comments, more>>
       ELSE /\ g \in GroupPks
            /\ groups' = [groups EXCEPT ![g] =
                            [created_by |-> u, subject |-> form.subject,
                             max_members |-> maxMembers]]
            /\ memberships' = FirstMembers(memberships, g, u)
            /\ LoggedMsg(r, "redirect", "created")
            /\ UNCHANGED <<material, nextPk, ratings, saved, pc, loc, hits, comments, more>>
  ELSE /\ Logged(r, "render")
       /\ UNCHANGED <<dbvars, pc, loc, hits, comments, more>>

\* views.study_group_join, a whole request (the request method is not looked at).
StudyGroupJoin(u, g) ==
  LET r == Req("study_group_join", u, g, Null, Null) IN
  IF ~GroupExists(groups, g)
  THEN /\ Logged(r, "not_found")
       /\ UNCHANGED <<dbvars, pc, loc, hits, comments, more>>
  ELSE IF HasRoom(MemberCount(memberships, g), groups[g].max_members)
  THEN /\ memberships' = MemberAdd(memberships, g, u)
       /\ LoggedMsg(r, "redirect", "joined")
       /\ UNCHANGED <<material, nextPk, ratings, saved, groups, pc, loc, hits, comments, more>>
  ELSE /\ LoggedMsg(r, "redirect", "full")
       /\ UNCHANGED <<dbvars, pc, loc, hits, comments, more>>

BadGroup == MaxGroups + 1

\* Requests on the study groups, one at a time.
NextGroups ==
  \/ \E u \in Users, method \in Methods : \E form \in Submitted(method, GroupForms, NoForm) :
        StudyGroupCreate(u, method, form)
  \/ \E u \in Users, g \in GroupPks \cup {BadGroup} : StudyGroupJoin(u, g)

SpecGroups == Init /\ [][NextGroups]_vars

\* ------------------------------------------------------------- view counter
\* A request without a logged-in user.
Anonymous == "anonymous"

\* (mutant) the counter assigned, not incremented.
ViewedFirst(row) == [row EXCEPT !.views = 1]

\* material.views += 1
Viewed(row) == [row EXCEPT !.views = @ + 1]

\* views.material_detail, a whole request: the material is looked up, its views
\* incremented and the row saved; the context is then built with models.Avg, and
\* views.py binds no name "models" (lines 1-13): NameError, an error response
\* after the save.
MaterialDetail(viewer, pk) ==
  LET r == Req("material_detail", viewer, pk, Null, Null) IN
  IF ~MaterialExists(material, pk)
  THEN /\ Logged(r, "not_found")
       /\ UNCHANGED <<dbvars, pc, loc, hits, comments, more>>
  ELSE /\ material[pk].views < MaxViews
       /\ material' = [material EXCEPT ![pk] = Viewed(material[pk])]
       /\ hits' = [hits EXCEPT ![pk] = @ + 1]
       /\ Logged(r, "error")
       /\ UNCHANGED <<nextPk, ratings, saved, groups, memberships, pc, loc, comments, more>>

\* Requests on the materials and their view counters, one at a time.
NextViews ==
  \/ \E u \in Users, method \in Methods : \E formValid \in Submitted(method, BOOLEAN, FALSE) :
        MaterialUpload(u, method, formValid)
  \/ \E u \in Users, pk \in Pks \cup {BadPk}, method \in Methods : MaterialDelete(u, pk, method)
  \/ \E viewer \in Users \cup {Anonymous}, pk \in Pks \cup {BadPk} : MaterialDetail(viewer, pk)

SpecViews == Init /\ [][NextViews]_vars

\* ------------------------------------------------------ study groups: claims
\* The last request was study_group_join by u on the existing group g.
Joined(u, g) ==
  /\ last # NoRow
  /\ last.req.op = "study_group_join" /\ last.req.user = u /\ last.req.pk = g
  /\ last.resp # "not_found"

\* C7: study_group_join by u on g reports success and has u among the members
\* (adding nothing but u) exactly when the member count it found was strictly
\* less than max_members; otherwise it reports "full" and the memberships are as
\* they were.
C7_JoinIffRoom ==
  \A u \in Users, g \in GroupPks :
    Joined(u, g) =>
      LET before == last.pre.memberships
          room == MemberCount(before, g) < last.pre.groups[g].max_members IN
      /\ last.resp = "redirect"
      /\ (last.msg = "joined") <=> room
      /\ (last.msg = "full") <=> ~room
      /\ room => /\ Members(memberships, g) = Members(before, g) \cup {u}
                 /\ DeleteRows(memberships, {[group |-> g, user |-> u]})
                      = DeleteRows(before, {[group |-> g, user |-> u]})
      /\ ~room => memberships = before

\* C7 witness: a user who is not a member was turned away from a group whose
\* member count, 1, equals its max_members.
C7_Witness ==
  \E u \in Users, g \in GroupPks :
    /\ Joined(u, g)
    /\ last.msg = "full"
    /\ groups[g].max_members = 1
    /\ MemberCount(memberships, g) = 1
    /\ u \notin Members(memberships, g)

\* C8 as stated: after any sequence of study_group_create and study_group_join
\* requests every study group has member_count <= max_members.
C8_MembersWithinMax ==
  \A g \in GroupPks :
    GroupExists(groups, g) => MemberCount(memberships, g) <= groups[g].max_members

\* C9: a study_group_join by a user who is a member already leaves the
\* memberships, and so the member count, as they were, full group or not.
C9_DuplicateJoinNoOp ==
  \A u \in Users, g \in GroupPks :
    (Joined(u, g) /\ u \in Members(last.pre.memberships, g)) =>
      /\ memberships = last.pre.memberships
      /\ MemberCount(memberships, g) = MemberCount(last.pre.memberships, g)
      /\ u \in Members(memberships, g)

\* C9 witness: a member joined again a group that still has room, and was told
\* "joined"; the member count is still 1.
C9_Witness ==
  \E u \in Users, g \in GroupPks :
    /\ Joined(u, g)
    /\ u \in Members(last.pre.memberships, g)
    /\ last.msg = "joined"
    /\ MemberCount(memberships, g) = 1

\* The last request was a study_group_create that created a group.
Created ==
  last # NoRow /\ last.req.op = "study_group_create" /\ last.resp = "redirect"

\* The last request was a study_group_create without a name, a description or a
\* subject.
Incomplete ==
  /\ last # NoRow /\ last.req.op = "study_group_create"
  /\ last.req.arg.name = "" \/ last.req.arg.description = "" \/ last.req.arg.subject = ""

\* C29: a study_group_create that goes through makes a group created_by the
\* requester whose members are the requester alone; one without a name, a
\* description or a subject makes no group and no membership; and the creator of
\* every group is among its members.
C29_CreatorIsTheFirstMember ==
  /\ Created =>
       \E g \in GroupPks :
         /\ ~GroupExists(last.pre.groups, g) /\ GroupExists(groups, g)
         /\ groups[g].created_by = last.req.user
         /\ Members(memberships, g) = {last.req.user}
         /\ MemberCount(memberships, g) = 1
         /\ \A h \in GroupPks \ {g} :
              groups[h] = last.pre.groups[h]
                /\ MemberCount(memberships, h) = MemberCount(last.pre.memberships, h)
  /\ Incomplete => groups = last.pre.groups /\ memberships = last.pre.memberships
  /\ \A g \in GroupPks :
       GroupExists(groups, g) => groups[g].created_by \in Members(memberships, g)

\* u2 has created a second group, next to one it had joined.
C29_Witness ==
  /\ Created /\ last.req.user = "u2"
  /\ GroupExists(last.pre.groups, 1) /\ "u2" \in Members(memberships, 1)
  /\ GroupExists(groups, 2) /\ Members(memberships, 2) = {"u2"}

\* ------------------------------------------------------ view counter: claims
\* C10: a material's views equal its initial value, 0, plus the number of
\* material_detail requests made for it, whoever the viewers were; and a
\* material_detail request leaves every other material as it was.
C10_ViewsCountRequests ==
  /\ \A m \in Pks : MaterialExists(material, m) => material[m].views = hits[m]
  /\ (last # NoRow /\ last.req.op = "material_detail") =>
       \A m \in Pks : m # last.req.pk => material[m] = last.pre.material[m]

\* C10 witness: material 1 was requested three times, last by an anonymous viewer
\* who found views = 2, and material 2 not once.
C10_Witness ==
  /\ MaterialExists(material, 1) /\ material[1].views = 3 /\ hits[1] = 3
  /\ MaterialExists(material, 2) /\ material[2].views = 0 /\ hits[2] = 0
  /\ last.req.op = "material_detail" /\ last.req.pk = 1 /\ last.req.user = Anonymous
  /\ last.pre.material[1].views = 2

\* C26: every material_detail request for an existing material ends with the
\* detail page rendered (not with an error), showing the mean of the material's
\* scores and the requester's own saved record and rating.
C26_DetailRendered ==
  last # NoRow /\ last.req.op = "material_detail"
    /\ MaterialExists(last.pre.material, last.req.pk)
    => last.resp = "render" /\ last.resp # "error"

\* ------------------------------------------------------------ material edit
\* What MaterialUpdateForm receives: its five fields, the title given or not.
EditForms ==
  {[title |-> t, description |-> <<"e">>, subject |-> "s1", material_type |-> "slide",
    tags |-> <<"t">>] : t \in {<<>>, <<"b">>}}

\* The form of a request that submits nothing.
NoEditForm ==
  [title |-> <<>>, description |-> <<>>, subject |-> "", material_type |-> "", tags |-> <<>>]

\* MaterialUpdateForm(request.POST, instance=material).is_valid(): title,
\* description, subject and material_type are required, the subject a Subject
\* row and the type one of the choices; tags may be blank.
EditFormValid(form) ==
  /\ form.title # <<>> /\ form.description # <<>>
  /\ form.subject \in subjects
  /\ form.material_type \in MaterialTypes

\* (mutant) a form that also carries is_approved, its box not ticked.
EditedWithApproval(row, form) ==
  [row EXCEPT !.title = form.title, !.description = form.description,
              !.subject = form.subject, !.material_type = form.material_type,
              !.tags = form.tags, !.is_approved = FALSE]

\* form.save(): the submitted fields are assigned to the instance loaded at the
\* top of the handler, and the instance is saved, every column of it.
Edited(row, form) ==
  [row EXCEPT !.title = form.title, !.description = form.description,
              !.subject = form.subject, !.material_type = form.material_type,
              !.tags = form.tags]

\* (mutant) material_edit looking the material up by primary key alone.
FoundForEditAnyUser(mat, pk, u) == MaterialExists(mat, pk)

\* get_object_or_404(Material, pk=pk, uploaded_by=request.user)
FoundForEdit(mat, pk, u) == OwnedBy(mat, pk, u)

\* views.material_edit, a whole request.
MaterialEdit(u, pk, method, form) ==
  LET r == Req("material_edit", u, pk, method, form) IN
  IF ~FoundForEdit(material, pk, u)
  THEN /\ Logged(r, "not_found")
       /\ UNCHANGED <<dbvars, pc, loc, hits, comments, more>>
  ELSE IF method = "POST" /\ EditFormValid(form)
  THEN /\ material' = [material EXCEPT ![pk] = Edited(material[pk], form)]
       /\ Logged(r, "redirect")
       /\ UNCHANGED <<nextPk, ratings, saved, groups, memberships, pc, loc, hits, comments, more>>
  ELSE /\ Rendered(r)
       /\ UNCHANGED <<dbvars, pc, loc, hits, comments, more>>

\* ------------------------------------------ view counter, concurrent requests
\* What a worker keeps of a served material_detail: the answer and the value of
\* views it had read.
AnswerRead(r, response, exception, v) ==
  [op |-> r.op, user |-> r.user, pk |-> r.pk, resp |-> response, exc |-> exception,
   read |-> v]

\* (mutant) the increment done by the store on the stored value (an F expression).
SaveViewedInStore(row, stored) ==
  IF stored = NoRow THEN Viewed(row) ELSE [row EXCEPT !.views = stored.views + 1]

\* material.views += 1; material.save(): the instance loaded by the first query,
\* its counter incremented, written back whole, whatever the store holds by now.
SaveViewed(row, stored) == Viewed(row)

\* material_detail, first query: get_object_or_404(Material, pk=pk).
DetailLoad(p, viewer, pk) ==
  LET r == Req("material_detail", viewer, pk, Null, Null) IN
  /\ pc[p] = "idle"
  /\ IF MaterialExists(material, pk)
     THEN /\ pc' = [pc EXCEPT ![p] = "detail_save"]
          /\ loc' = [loc EXCEPT ![p] = [req |-> r, row |-> material[pk]]]
     ELSE /\ pc' = pc
          /\ loc' = [loc EXCEPT ![p] = Answer(r, "not_found", Null)]
  /\ UNCHANGED <<dbvars, last, hits, comments, more>>

\* material_detail, second query: material.save(); then the NameError of line 113.
DetailSave(p) ==
  LET pk == loc[p].req.pk IN
  /\ pc[p] = "detail_save"
  /\ loc[p].row.views < MaxViews /\ hits[pk] < MaxViews
  /\ material' = [material EXCEPT ![pk] = SaveViewed(loc[p].row, material[pk])]
  /\ hits' = [hits EXCEPT ![pk] = @ + 1]
  /\ pc' = [pc EXCEPT ![p] = "idle"]
  /\ loc' = [loc EXCEPT ![p] = AnswerRead(loc[p].req, "error", "NameError", loc[p].row.views)]
  /\ UNCHANGED <<nextPk, ratings, saved, groups, memberships, last, comments, more>>

\* material_edit, first query: the lookup; the form is validated without a query.
EditLoad(p, u, pk, method, form) ==
  LET r == Req("material_edit", u, pk, method, form) IN
  /\ pc[p] = "idle"
  /\ IF ~FoundForEdit(material, pk, u)
     THEN /\ pc' = pc
          /\ loc' = [loc EXCEPT ![p] = Answer(r, "not_found", Null)]
     ELSE IF method = "POST" /\ EditFormValid(form)
     THEN /\ pc' = [pc EXCEPT ![p] = "edit_save"]
          /\ loc' = [loc EXCEPT ![p] = [req |-> r, row |-> material[pk]]]
     ELSE /\ pc' = pc
          /\ loc' = [loc EXCEPT ![p] = Answer(r, "render", Null)]
  /\ UNCHANGED <<dbvars, last, hits, comments, more>>

\* material_edit, second query: form.save().
EditSave(p) ==
  LET pk == loc[p].req.pk IN
  /\ pc[p] = "edit_save"
  /\ material' = [material EXCEPT ![pk] = Edited(loc[p].row, loc[p].req.arg)]
  /\ pc' = [pc EXCEPT ![p] = "idle"]
  /\ loc' = [loc EXCEPT ![p] = Answer(loc[p].req, "redirect", Null)]
  /\ UNCHANGED <<nextPk, ratings, saved, groups, memberships, last, hits, comments, more>>

\* material_detail requests served by two workers, uploads in between.
NextDetailConc ==
  \/ \E u \in Users : ConcMaterialUpload(u)
  \/ \E p \in Procs, pk \in Pks \cup {BadPk} : DetailLoad(p, Anonymous, pk)
  \/ \E p \in Procs : DetailSave(p)

SpecDetailConc == Init /\ [][NextDetailConc]_vars

\* material_detail and material_edit requests served by two workers.
NextViewsConc ==
  \/ ConcMaterialUpload("u1")
  \/ \E p \in Procs, pk \in Pks : DetailLoad(p, Anonymous, pk)
  \/ \E p \in Procs : DetailSave(p)
  \/ \E p \in Procs, u \in Users, pk \in Pks, form \in EditForms : EditLoad(p, u, pk, "POST", form)
  \/ \E p \in Procs : EditSave(p)

SpecViewsConc == Init /\ [][NextViewsConc]_vars

\* ------------------------------------- view counter, concurrent requests: claims
\* C11: the stored views of a material never decreases, in any step of any
\* interleaving of material_detail and material_edit requests.
C11_ViewsNeverDecrease ==
  [][\A pk \in Pks :
       MaterialExists(material, pk) => material'[pk].views >= material[pk].views]_vars

\* The two workers have each served a material_detail of material pk, each
\* having read views = v.
BothRead(pk, v) ==
  \A p \in Procs : /\ Served(p, "material_detail")
                   /\ loc[p].resp = "error"
                   /\ loc[p].pk = pk
                   /\ loc[p].read = v

\* C12: when two material_detail requests on one material have both read
\* views = v and both completed their write, the stored views is v + 1: one of
\* the two increments is lost.
C12_LostUpdate ==
  \A pk \in Pks, v \in 0..MaxViews :
    BothRead(pk, v) => material[pk].views = v + 1 /\ material[pk].views < v + 2

\* Two requests completed, both had read 0, and the counter shows 1.
C12_Witness == BothRead(1, 0) /\ hits[1] = 2 /\ material[1].views = 1

\* ------------------------------------------------------ accounts and profiles
\* Usernames and e-mail addresses a registration can submit.
Usernames == Users \cup {"u3"}
Emails == {"e1", "e3"}

\* The users that exist, who are those that can be logged in.
LoggedIn == {a.username : a \in accounts}

\* Well-formed e-mail addresses; "" and "invalid-email" are not.
Addresses == {"e1", "e2", "e3"}
EmailTexts == Emails \cup {"", "invalid-email"}
Names == {"", "n"}
Passwords == {"complexpassword123", "differentpassword"}

\* What UserRegisterForm receives: the six fields of Meta.fields.
AllRegisterForms ==
  [username : Usernames, email : EmailTexts, first_name : Names, last_name : Names,
   password1 : {"complexpassword123"}, password2 : Passwords]

\* A submission with both names given: only the username, the address and the
\* repeated password vary.
FilledForm(username, email, password2) ==
  [username |-> username, email |-> email, first_name |-> "n", last_name |-> "n",
   password1 |-> "complexpassword123", password2 |-> password2]

RegisterForms == {FilledForm(u, e, p) : u \in Usernames, e \in Emails, p \in Passwords}
NoRegisterForm ==
  [username |-> "", email |-> "", first_name |-> "", last_name |-> "",
   password1 |-> "", password2 |-> ""]

\* clean_username: User.objects.filter(username=username).exists().
UsernameTaken(accts, username) == \E a \in accts : a.username = username

\* (mutant) clean_email without the lookup.
EmailTakenNever(accts, email) == FALSE

\* clean_email: User.objects.filter(email=email).exists().
EmailTaken(accts, email) == \E a \in accts : a.email = email

\* The fields of a bound UserRegisterForm that carry an error: every field is
\* required, EmailField wants a well-formed address, clean_<field> runs on a
\* field that passed so far, and UserCreationForm puts a mismatch of the two
\* passwords on password2.
RegisterErrors(form, accts) ==
  {f \in {"username", "email", "first_name", "last_name", "password1", "password2"} :
     CASE f = "username" -> form.username = "" \/ UsernameTaken(accts, form.username)
       [] f = "email" -> \/ form.email \notin Addresses
                         \/ EmailTaken(accts, form.email)
       [] f = "first_name" -> form.first_name = ""
       [] f = "last_name" -> form.last_name = ""
       [] f = "password1" -> form.password1 = ""
       [] f = "password2" -> \/ form.password2 = ""
                             \/ form.password1 # "" /\ form.password1 # form.password2}

\* UserRegisterForm.is_valid().
RegisterFormValid(form) == RegisterErrors(form, accounts) = {}

\* render(request, 'register.html', {'form': form}) of a bound form: the record
\* of the request names the fields in form.errors.
RenderedErrors(r, errors) ==
  last' = [req |-> r, resp |-> "render", msg |-> "form_errors", pre |-> Snapshot,
           prev |-> NoRow, errors |-> errors]

\* (mutant) no receiver of post_save creating the Profile.
ProfilesAfterSaveNoCreate(prof, u, created) == prof

\* The two receivers of post_save(sender=User): create_profile inserts the
\* Profile of a user just created; save_profile saves instance.profile again.
ProfilesAfterSave(prof, u, created) ==
  IF created THEN Insert(prof, NewProfile(u)) ELSE prof

\* views.register: a valid POST saves the User (post_save, created) and logs it
\* in (update_last_login saves it again: post_save, not created).
Register(method, form) ==
  LET r == Req("register", Anonymous, Null, method, form) IN
  IF method = "POST" /\ RegisterFormValid(form)
  THEN /\ accounts' = accounts \cup {[username |-> form.username, email |-> form.email]}
       /\ profiles' = ProfilesAfterSave(ProfilesAfterSave(profiles, form.username, TRUE),
                                        form.username, FALSE)
       /\ Logged(r, "redirect")
       /\ UNCHANGED <<dbvars, subjects, posts, postComments, rawSaved, pc, loc, hits, comments>>
  ELSE /\ IF method = "POST" THEN RenderedErrors(r, RegisterErrors(form, accounts))
                            ELSE Rendered(r)
       /\ UNCHANGED <<dbvars, pc, loc, hits, comments, more>>

\* A later save of an existing User (a login updates last_login): post_save, not
\* created.
UserSave(u) ==
  /\ u \in LoggedIn
  /\ profiles' = ProfilesAfterSave(profiles, u, FALSE)
  /\ Logged(Req("user_save", u, Null, Null, Null), "saved")
  /\ UNCHANGED <<dbvars, accounts, subjects, posts, postComments, rawSaved, pc, loc, hits, comments>>

\* ------------------------------------------------------------------- deletion
PostExists(pst, k) == k \in DOMAIN pst /\ pst[k] \notin {NoRow, Gone}

\* (mutant) every foreign key on_delete=DO_NOTHING, unchecked: only the rows
\* named are deleted.
AfterDeleteNoCascade(gu, gs, gm, gp) ==
  [accounts |-> {a \in accounts : a.username \notin gu},
   profiles |-> profiles,
   subjects |-> subjects \ gs,
   material |-> [pk \in Pks |-> IF pk \in gm THEN NoRow ELSE material[pk]],
   ratings |-> ratings, saved |-> saved, comments |-> comments,
   posts |-> [k \in PostPks |-> IF k \in gp THEN Gone ELSE posts[k]],
   postComments |-> postComments, groups |-> groups, memberships |-> memberships]

\* The store after the deletion of the users gu, the subjects gs, the materials
\* gm and the posts gp, with everything on_delete=CASCADE takes along; a Post of
\* a deleted subject stays, its subject NULL (on_delete=SET_NULL).
AfterDelete(gu, gs, gm, gp) ==
  LET goneM == {pk \in Pks : MaterialExists(material, pk) /\
                  (pk \in gm \/ material[pk].uploaded_by \in gu \/ material[pk].subject \in gs)}
      goneP == {k \in PostPks : PostExists(posts, k) /\ (k \in gp \/ posts[k].user \in gu)}
      goneG == {g \in GroupPks : GroupExists(groups, g) /\
                  (groups[g].created_by \in gu \/ groups[g].subject \in gs)}
      OfMaterial(table) ==
        DeleteRows(table, {r \in DOMAIN table : r.user \in gu \/ r.material \in goneM})
  IN [accounts |-> {a \in accounts : a.username \notin gu},
      profiles |-> DeleteRows(profiles, {r \in DOMAIN profiles : r.user \in gu}),
      subjects |-> subjects \ gs,
      material |-> [pk \in Pks |-> IF pk \in goneM THEN NoRow ELSE material[pk]],
      ratings |-> OfMaterial(ratings),
      saved |-> OfMaterial(saved),
      comments |-> OfMaterial(comments),
      posts |-> [k \in PostPks |->
                   IF k \in goneP THEN Gone
                   ELSE IF PostExists(posts, k) /\ posts[k].subject \in gs
                   THEN [posts[k] EXCEPT !.subject = Null]
                   ELSE posts[k]],
      postComments |-> DeleteRows(postComments,
                         {r \in DOMAIN postComments : r.user \in gu \/ r.post \in goneP}),
      groups |-> [g \in GroupPks |-> IF g \in goneG THEN Gone ELSE groups[g]],
      memberships |-> DeleteRows(memberships,
                         {r \in DOMAIN memberships : r.user \in gu \/ r.group \in goneG})]

\* The store becomes t.
StoreBecomes(t) ==
  /\ accounts' = t.accounts /\ profiles' = t.profiles /\ subjects' = t.subjects
  /\ material' = t.material /\ ratings' = t.ratings /\ saved' = t.saved
  /\ comments' = t.comments /\ posts' = t.posts /\ postComments' = t.postComments
  /\ groups' = t.groups /\ memberships' = t.memberships

\* User.delete(), from the admin site or a shell.
UserDelete(u) ==
  /\ u \in LoggedIn
  /\ StoreBecomes(AfterDelete({u}, {}, {}, {}))
  /\ rawSaved' = rawSaved \ {u}
  /\ Logged(Req("user_delete", u, Null, Null, Null), "deleted")
  /\ UNCHANGED <<nextPk, pc, loc, hits>>

\* --------------------------------------------------------------- profile edit
\* MinValueValidator(0.0), MaxValueValidator(4.0), in tenths.
MinCgpa == 0
MaxCgpa == 40

\* What the cgpa field of ProfileUpdateForm can receive (nothing, a grade
\* within the limits, one above, one below, no number), and the
\* credits_completed field (a number, nothing).
CgpaTexts == {<<>>, <<"3", ".", "5">>, <<"4", ".", "5">>, <<"-", "1">>, <<"x">>}
CreditTexts == {<<"0">>, <<>>}
ProfileForms == [cgpa : CgpaTexts, credits_completed : CreditTexts]
NoProfileForm == [cgpa |-> <<>>, credits_completed |-> <<>>]

\* forms.FloatField.to_python on a decimal text of at most one fraction digit:
\* an optional sign, digits, and optionally a point and one digit.
IsFloatText(text) ==
  LET body == IF text # <<>> /\ text[1] \in {"+", "-"} THEN Tail(text) ELSE text
      n == Len(body) IN
  \/ IsIntText(text)
  \/ /\ n >= 3
     /\ body[n - 1] = "."
     /\ IsDigit(body[n])
     /\ \A i \in 1..(n - 2) : IsDigit(body[i])

\* float(text), in tenths.
TenthsOf(text) ==
  LET body == IF text[1] \in {"+", "-"} THEN Tail(text) ELSE text
      n == Len(body)
      abs == IF n >= 3 /\ body[n - 1] = "."
             THEN 10 * DigitsValue(SubSeq(body, 1, n - 2)) + DigitValue(body[n])
             ELSE 10 * DigitsValue(body) IN
  IF text[1] = "-" THEN 0 - abs ELSE abs

\* (mutant) the cgpa field without the validators of the model field.
CgpaFieldValidNoLimits(text) == text = <<>> \/ IsFloatText(text)

\* The cgpa field of the form: optional; a number; and, by the full_clean of the
\* instance in the form's validation, MinValueValidator(0.0) and
\* MaxValueValidator(4.0).
CgpaFieldValid(text) ==
  \/ text = <<>>
  \/ IsFloatText(text) /\ TenthsOf(text) >= MinCgpa /\ TenthsOf(text) <= MaxCgpa

\* ProfileUpdateForm.is_valid(): credits_completed is required, an integer.
ProfileFormValid(form) == CgpaFieldValid(form.cgpa) /\ IsIntText(form.credits_completed)

\* The one Profile row of user u, and the table with that row replaced.
ProfileOf(prof, u) == CHOOSE r \in BagToSet(prof) : r.user = u
WithProfile(prof, u, row) == Insert(DeleteRows(prof, {r \in DOMAIN prof : r.user = u}), row)

\* form.save(): cleaned_data assigned to the profile (an empty cgpa is None).
ProfileEdited(row, form) ==
  [row EXCEPT !.cgpa = IF form.cgpa = <<>> THEN NoCgpa ELSE <<TenthsOf(form.cgpa)>>,
              !.credits_completed = IntOf(form.credits_completed)]

\* views.profile_edit
ProfileEdit(u, method, form) ==
  LET r == Req("profile_edit", u, Null, method, form) IN
  /\ u \in LoggedIn
  /\ IF method = "POST" /\ ProfileFormValid(form)
     THEN /\ profiles' = WithProfile(profiles, u, ProfileEdited(ProfileOf(profiles, u), form))
          /\ Logged(r, "redirect")
          /\ UNCHANGED <<dbvars, accounts, subjects, posts, postComments, rawSaved,
                         pc, loc, hits, comments>>
     ELSE /\ Rendered(r)
          /\ UNCHANGED <<dbvars, pc, loc, hits, comments, more>>

\* The grades test_cgpa_validation assigns: 4.5 and -1.0.
RawCgpas == {45, 0 - 10}

\* profile.cgpa = value; profile.save(): no form, no validation.
ProfileSaveRaw(u, value) ==
  /\ u \in LoggedIn
  /\ profiles' = WithProfile(profiles, u, [ProfileOf(profiles, u) EXCEPT !.cgpa = <<value>>])
  /\ rawSaved' = rawSaved \cup {u}
  /\ Logged(Req("profile_save", u, Null, Null, value), "saved")
  /\ UNCHANGED <<dbvars, accounts, subjects, posts, postComments, pc, loc, hits, comments>>

\* Registrations, logins, profile edits, direct saves and deletions of users.
NextAccounts ==
  \/ \E method \in Methods : \E form \in Submitted(method, RegisterForms, NoRegisterForm) :
       Register(method, form)
  \/ \E u \in Usernames : UserSave(u)
  \/ \E u \in Usernames : UserDelete(u)
  \/ \E u \in Usernames, method \in Methods :
       \E form \in Submitted(method, ProfileForms, NoProfileForm) : ProfileEdit(u, method, form)
  \/ \E u \in Usernames, value \in RawCgpas : ProfileSaveRaw(u, value)

SpecAccounts == Init /\ [][NextAccounts]_vars

\* ------------------------------------------------ accounts and profiles: claims
ProfileRows(u) == CountRows(profiles, {r \in DOMAIN profiles : r.user = u})

\* C13: every existing user has exactly one Profile and every Profile belongs to
\* an existing user; the Profile of a user just registered has cgpa NULL,
\* credits_completed 0 and reputation 0; a request that is not the deletion of
\* user u leaves u with a Profile.
C13_OneProfilePerUser ==
  /\ \A u \in Usernames : ProfileRows(u) = IF u \in LoggedIn THEN 1 ELSE 0
  /\ \A r \in BagToSet(profiles) : r.user \in LoggedIn
  /\ (last # NoRow /\ last.req.op = "register" /\ last.resp = "redirect")
       => BagIn([user |-> last.req.arg.username, cgpa |-> NoCgpa, credits_completed |-> 0,
                 reputation |-> 0], profiles)
  /\ \A u \in Usernames :
       (last # NoRow /\ u \in {a.username : a \in last.pre.accounts} /\ u \notin LoggedIn)
          => last.req.op = "user_delete" /\ last.req.user = u

\* u3 has registered and then been saved again: one Profile.
C13_Witness ==
  /\ last # NoRow /\ last.req.op = "user_save" /\ last.req.user = "u3"
  /\ ProfileRows("u3") = 1

InRange(cgpa) == cgpa = NoCgpa \/ (cgpa[1] >= MinCgpa /\ cgpa[1] <= MaxCgpa)

\* What the cgpa field of the last request, a profile_edit, parses to.
SubmittedOutOfRange ==
  /\ IsFloatText(last.req.arg.cgpa)
  /\ (TenthsOf(last.req.arg.cgpa) < MinCgpa \/ TenthsOf(last.req.arg.cgpa) > MaxCgpa)

NextRegister ==
  \/ \E method \in Methods : \E form \in Submitted(method, AllRegisterForms, NoRegisterForm) :
       Register(method, form)
  \/ \E u \in Usernames : UserDelete(u)

SpecRegister == Init /\ [][NextRegister]_vars

\* The last request was a registration that submitted a form.
RegisterPost == last # NoRow /\ last.req.op = "register" /\ last.req.method = "POST"

\* The registration was answered with the form again, an error on the field, and
\* no User and no Profile were created.
Rejected(field) ==
  /\ last.resp = "render"
  /\ field \in last.errors
  /\ accounts = last.pre.accounts
  /\ profiles = last.pre.profiles

\* C21: a registration with a username that an existing user has, or with an
\* e-mail address that an existing user has, is rejected with an error on that
\* field and creates no User and no Profile; and no two users ever share a
\* username or an e-mail address.
C21_TakenNameOrEmailRejected ==
  /\ RegisterPost /\ (\E a \in last.pre.accounts : a.username = last.req.arg.username)
       => Rejected("username")
  /\ RegisterPost /\ (\E a \in last.pre.accounts : a.email = last.req.arg.email)
       => Rejected("email")
  /\ \A a, b \in accounts : a # b => a.username # b.username /\ a.email # b.email

\* A new username with the address of an existing user was submitted, everything
\* else in order: the only error is on email.
C21_Witness ==
  /\ RegisterPost
  /\ last.req.arg.username = "u3"
  /\ \E a \in last.pre.accounts : a.email = last.req.arg.email
  /\ last.resp = "render"
  /\ last.errors = {"email"}

\* The submission leaves both names out.
NamesOmitted(form) == form.first_name = "" /\ form.last_name = ""

\* The username is free, the address well formed and free.
FreshIdentity(form, accts) ==
  /\ \A a \in accts : a.username # form.username /\ a.email # form.email
  /\ form.email \in Addresses

\* C22: a registration giving only a free username, a well-formed free e-mail
\* address and the same acceptable password twice, and no first or last name, is
\* valid (the user is created and the answer is a redirect); with an empty or
\* malformed address, or with two different passwords, it is invalid.
C22_ValidWithoutNames ==
  RegisterPost /\ NamesOmitted(last.req.arg) /\ last.req.arg.username \notin {a.username : a \in last.pre.accounts}
    => IF /\ FreshIdentity(last.req.arg, last.pre.accounts)
          /\ last.req.arg.password1 = last.req.arg.password2
       THEN last.resp = "redirect" /\ last.req.arg.username \in LoggedIn
       ELSE last.req.arg.email \notin Addresses \/ last.req.arg.password1 # last.req.arg.password2
              => last.resp = "render"

\* ------------------------------------------------- rating upsert: any score
\* Scores outside the choices of Rating.score.
AnyScores == {<<"0">>, <<"6">>, <<"-", "1">>}

\* Rating.score: choices=[(i, i) for i in range(1, 6)]
ScoreChoices == 1..5

\* rate_material requests that submit any of these scores.
NextRateAny ==
  \/ \E u \in Users : MaterialUpload(u, "POST", TRUE)
  \/ \E u \in Users, pk \in Pks, score \in AnyScores : RateMaterial(u, pk, "POST", score)

SpecRateAny == Init /\ [][NextRateAny]_vars

\* C14: every stored Rating has a score in 1..5, whatever scores rate_material
\* requests submitted.
C14_ScoresWithinChoices == \A r \in BagToSet(ratings) : r.score \in ScoreChoices

\* --------------------------------------------------------- comments and posts
\* The content field of CommentForm and PostCommentForm: required.
Contents == {"", "hi"}
ContentValid(content) == content # ""

\* views.add_comment: a valid POST inserts the comment; every request on an
\* existing material is answered with the redirect to material_detail, a POST
\* whose form did not validate included.
AddComment(u, pk, method, content) ==
  LET r == Req("add_comment", u, pk, method, content) IN
  IF ~MaterialExists(material, pk)
  THEN /\ Logged(r, "not_found")
       /\ UNCHANGED <<dbvars, pc, loc, hits, comments, more>>
  ELSE IF method = "POST" /\ ContentValid(content)
  THEN /\ comments' = Insert(comments, [material |-> pk, user |-> u, content |-> content])
       /\ LoggedMsg(r, "redirect", "added")
       /\ UNCHANGED <<dbvars, pc, loc, hits, more>>
  ELSE /\ Logged(r, "redirect")
       /\ UNCHANGED <<dbvars, pc, loc, hits, comments, more>>

\* What PostForm receives: the subject (optional) and whether the other fields
\* pass (title, content and post_type given).
PostForms == [subject : {Null, "s1"}, rest : BOOLEAN]
NoPostForm == [subject |-> Null, rest |-> FALSE]
PostFormValid(form) == form.rest /\ (form.subject = Null \/ form.subject \in subjects)

\* The next Post primary key.
NextPost == Cardinality({k \in PostPks : posts[k] # NoRow}) + 1

\* views.post_create
PostCreate(u, method, form) ==
  LET r == Req("post_create", u, Null, method, form) IN
  IF method = "POST" /\ PostFormValid(form)
  THEN /\ NextPost \in PostPks
       /\ posts' = [posts EXCEPT ![NextPost] = [user |-> u, subject |-> form.subject]]
       /\ Logged(r, "redirect")
       /\ UNCHANGED <<dbvars, accounts, profiles, subjects, postComments, rawSaved,
                      pc, loc, hits, comments>>
  ELSE /\ Rendered(r)
       /\ UNCHANGED <<dbvars, pc, loc, hits, comments, more>>

\* (mutant) add_post_comment without the lookup of the post.
PostFoundAlways(pst, k) == TRUE

\* get_object_or_404(Post, pk=pk)
PostFound(pst, k) == PostExists(pst, k)

\* views.add_post_comment: as add_comment, on a post.
AddPostComment(u, k, method, content) ==
  LET r == Req("add_post_comment", u, k, method, content) IN
  IF ~PostFound(posts, k)
  THEN /\ Logged(r, "not_found")
       /\ UNCHANGED <<dbvars, pc, loc, hits, comments, more>>
  ELSE IF method = "POST" /\ ContentValid(content)
  THEN /\ postComments' = Insert(postComments, [post |-> k, user |-> u, content |-> content])
       /\ LoggedMsg(r, "redirect", "added")
       /\ UNCHANGED <<dbvars, accounts, profiles, subjects, posts, rawSaved,
                      pc, loc, hits, comments>>
  ELSE /\ Logged(r, "redirect")
       /\ UNCHANGED <<dbvars, pc, loc, hits, comments, more>>

\* Subject.delete() and Post.delete(), from the admin site or a shell.
SubjectDelete(sub) ==
  /\ sub \in subjects
  /\ StoreBecomes(AfterDelete({}, {sub}, {}, {}))
  /\ Logged(Req("subject_delete", Null, Null, Null, sub), "deleted")
  /\ UNCHANGED <<nextPk, rawSaved, pc, loc, hits>>

PostDelete(k) ==
  /\ PostExists(posts, k)
  /\ StoreBecomes(AfterDelete({}, {}, {}, {k}))
  /\ Logged(Req("post_delete", Null, k, Null, Null), "deleted")
  /\ UNCHANGED <<nextPk, rawSaved, pc, loc, hits>>

\* ------------------------------------------------------------- the whole site
\* Rows in the store, plus the views counted on its materials.
Footprint ==
  LET live == {pk \in Pks : MaterialExists(material, pk)}
      RECURSIVE Views(_)
      Views(pks) == IF pks = {} THEN 0
                    ELSE LET pk == CHOOSE x \in pks : TRUE IN
                         material[pk].views + Views(pks \ {pk}) IN
  Cardinality(live) + Views(live)
    + BagCardinality(ratings) + BagCardinality(saved) + BagCardinality(comments)
    + Cardinality({k \in PostPks : PostExists(posts, k)}) + BagCardinality(postComments)
    + Cardinality({g \in GroupPks : GroupExists(groups, g)}) + BagCardinality(memberships)

\* The study group forms submitted here: complete, and without a name.
SiteGroupForms == {GroupForm("algo", "weekly", "s1", NoText), GroupForm("", "weekly", "s1", NoText)}
\* The scores submitted here: none, no number, a number.
SiteScores == {NoText, <<"x">>, <<"5">>}

\* The next store is within the bound.
Small == Footprint' <= MaxRows

\* The POST requests of logged-in users on every table, the deletions of users,
\* subjects and posts, and material_detail, while the store is small.  A primary
\* key without a row is one not handed out yet or one whose row was deleted.
NextSite ==
  \/ \E u \in Users \cap LoggedIn, formValid \in BOOLEAN :
       (formValid => "s1" \in subjects) /\ MaterialUpload(u, "POST", formValid) /\ Small
  \/ \E u \in Users \cap LoggedIn, pk \in Pks, form \in EditForms :
       MaterialEdit(u, pk, "POST", form) /\ Small
  \/ \E u \in Users \cap LoggedIn, pk \in Pks : MaterialDelete(u, pk, "POST") /\ Small
  \/ \E pk \in Pks : MaterialDetail(Anonymous, pk) /\ Small
  \/ \E u \in Users \cap LoggedIn, pk \in Pks : SaveMaterial(u, pk) /\ Small
  \/ \E u \in Users \cap LoggedIn, pk \in Pks, score \in SiteScores :
       RateMaterial(u, pk, "POST", score) /\ Small
  \/ \E u \in Users \cap LoggedIn, pk \in Pks, content \in Contents :
       AddComment(u, pk, "POST", content) /\ Small
  \/ \E u \in Users \cap LoggedIn, form \in PostForms : PostCreate(u, "POST", form) /\ Small
  \/ \E u \in Users \cap LoggedIn, k \in PostPks, content \in Contents :
       AddPostComment(u, k, "POST", content) /\ Small
  \/ \E u \in Users \cap LoggedIn, form \in SiteGroupForms :
       StudyGroupCreate(u, "POST", form) /\ Small
  \/ \E u \in Users \cap LoggedIn, g \in GroupPks : StudyGroupJoin(u, g) /\ Small
  \/ \E u \in Users : UserDelete(u)
  \/ \E sub \in Subjects : SubjectDelete(sub)
  \/ \E k \in PostPks : PostDelete(k)

SpecSite == Init /\ [][NextSite]_vars

\* ------------------------------------------------------ the whole site: claims
\* The last request was a material_edit or material_delete on a material that
\* existed and was uploaded by someone else.
ByNonUploader ==
  /\ last # NoRow
  /\ last.req.op \in {"material_edit", "material_delete"}
  /\ MaterialExists(last.pre.material, last.req.pk)
  /\ last.pre.material[last.req.pk].uploaded_by # last.req.user

\* C15: a material_edit or material_delete by someone who is not the uploader is
\* answered not-found and leaves the materials, ratings, comments and saved
\* records as they were; a material_edit or material_delete that changed a
\* material came from its uploader.
C15_OnlyUploaderChanges ==
  /\ ByNonUploader =>
       /\ last.resp = "not_found"
       /\ material = last.pre.material /\ ratings = last.pre.ratings
       /\ comments = last.pre.comments /\ saved = last.pre.saved
  /\ (last # NoRow /\ last.req.op \in {"material_edit", "material_delete"}
        /\ material # last.pre.material)
       => last.pre.material[last.req.pk].uploaded_by = last.req.user

\* u2 has asked to edit material 1 of u1, which has a rating, a comment or a
\* saved record.
C15_Witness ==
  /\ ByNonUploader /\ last.req.op = "material_edit" /\ last.req.method = "POST"
  /\ EditFormValid(last.req.arg)
  /\ BagCardinality(ratings) + BagCardinality(comments) + BagCardinality(saved) > 0

\* The last request named a primary key under which nothing existed.
OnNothing ==
  /\ last # NoRow
  /\ \/ /\ last.req.op \in {"material_detail", "save_material", "rate_material",
                            "add_comment", "material_edit", "material_delete"}
        /\ ~MaterialExists(last.pre.material, last.req.pk)
     \/ /\ last.req.op = "add_post_comment"
        /\ ~PostExists(last.pre.posts, last.req.pk)
     \/ /\ last.req.op = "study_group_join"
        /\ ~GroupExists(last.pre.groups, last.req.pk)

\* C16: a request on a primary key with no entity is answered not-found and
\* changes nothing in the store, the view counters included.
C16_NotFoundChangesNothing == OnNothing => last.resp = "not_found" /\ Snapshot = last.pre

\* A comment on a post that does not exist (any more), in a store that is not
\* empty.
C16_Witness ==
  /\ OnNothing /\ last.req.op = "add_post_comment" /\ last.req.arg = "hi"
  /\ Footprint > 0

\* No row refers to a user, subject, material, post or group that does not exist.
NoDanglingReference ==
  /\ \A r \in BagToSet(profiles) : r.user \in LoggedIn
  /\ \A pk \in Pks : MaterialExists(material, pk) =>
       material[pk].uploaded_by \in LoggedIn /\ material[pk].subject \in subjects
  /\ \A r \in BagToSet(ratings) \cup BagToSet(saved) \cup BagToSet(comments) :
       r.user \in LoggedIn /\ MaterialExists(material, r.material)
  /\ \A k \in PostPks : PostExists(posts, k) =>
       posts[k].user \in LoggedIn /\ posts[k].subject \in subjects \cup {Null}
  /\ \A r \in BagToSet(postComments) : r.user \in LoggedIn /\ PostExists(posts, r.post)
  /\ \A g \in GroupPks : GroupExists(groups, g) =>
       groups[g].created_by \in LoggedIn /\ groups[g].subject \in subjects
  /\ \A r \in BagToSet(memberships) : r.user \in LoggedIn /\ GroupExists(groups, r.group)

\* The posts that had the subject deleted by the last request.
PostsOfDeletedSubject ==
  {k \in PostPks : PostExists(last.pre.posts, k) /\ last.pre.posts[k].subject = last.req.arg}

\* C17 as stated: no record refers to a deleted owner or parent, and after the
\* deletion of a subject no post of that subject remains.
C17_SubjectDeletesPosts ==
  /\ NoDanglingReference
  /\ (last # NoRow /\ last.req.op = "subject_delete")
       => \A k \in PostsOfDeletedSubject : ~PostExists(posts, k)

\* C17, amended: no record refers to a deleted owner or parent; the posts of a
\* deleted subject remain, without a subject.
C17_NoDanglingReference ==
  /\ NoDanglingReference
  /\ (last # NoRow /\ last.req.op = "subject_delete")
       => \A k \in PostsOfDeletedSubject : PostExists(posts, k) /\ posts[k].subject = Null

\* A user who had uploaded a material that someone else had commented, rated or
\* saved has been deleted.
C17_Witness ==
  /\ last # NoRow /\ last.req.op = "user_delete"
  /\ \E pk \in Pks :
       /\ MaterialExists(last.pre.material, pk)
       /\ last.pre.material[pk].uploaded_by = last.req.user
       /\ \E r \in BagToSet(last.pre.ratings) \cup BagToSet(last.pre.comments)
                     \cup BagToSet(last.pre.saved) :
            r.material = pk /\ r.user # last.req.user

\* The endpoints that handle a POST.
PostEndpoints ==
  {"register", "profile_edit", "material_upload", "material_edit", "add_comment",
   "add_post_comment", "post_create", "rate_material", "study_group_create"}

\* The entity request r is about existed in store pre.
TargetFound(r, pre) ==
  CASE r.op \in {"add_comment", "rate_material"} -> MaterialExists(pre.material, r.pk)
    [] r.op = "material_edit" -> OwnedBy(pre.material, r.pk, r.user)
    [] r.op = "add_post_comment" -> PostExists(pre.posts, r.pk)
    [] r.op = "study_group_create" -> r.arg.subject \in pre.subjects \cup {""}
    [] OTHER -> TRUE

\* What request r submitted does not pass the validation of its fields.
FailsValidation(r, pre) ==
  CASE r.op = "register" ->
         RegisterErrors(r.arg, pre.accounts) # {}
    [] r.op = "profile_edit" -> ~ProfileFormValid(r.arg)
    [] r.op = "material_upload" -> ~r.arg
    [] r.op = "material_edit" ->
         ~(/\ r.arg.title # <<>> /\ r.arg.description # <<>>
           /\ r.arg.subject \in pre.subjects /\ r.arg.material_type \in MaterialTypes)
    [] r.op \in {"add_comment", "add_post_comment"} -> ~ContentValid(r.arg)
    [] r.op = "post_create" ->
         ~(r.arg.rest /\ r.arg.subject \in pre.subjects \cup {Null})
    [] r.op = "rate_material" ->
         ~(Truthy(r.arg) /\ IsIntText(r.arg) /\ IntOf(r.arg) \in ScoreChoices)
    [] r.op = "study_group_create" ->
         \/ r.arg.name = "" \/ r.arg.description = "" \/ r.arg.subject = ""
         \/ (r.arg.max_members # NoText /\ ~IsIntText(r.arg.max_members))

\* C18: a POST to one of these endpoints is answered with a redirect when what
\* it submitted is valid, and otherwise with the form rendered again, its errors
\* shown, and the store unchanged.
C18_RedirectOrRenderErrors ==
  (last # NoRow /\ last.req.op \in PostEndpoints /\ last.req.method = "POST"
     /\ TargetFound(last.req, last.pre))
    => IF FailsValidation(last.req, last.pre)
       THEN last.resp = "render" /\ last.msg = "form_errors" /\ Snapshot = last.pre
       ELSE last.resp = "redirect"

\* The last request was a material_upload / material_edit that went through.
Uploaded == last # NoRow /\ last.req.op = "material_upload" /\ last.resp = "redirect"
EditDone == last # NoRow /\ last.req.op = "material_edit" /\ last.resp = "redirect"

\* The fields of a material that are not fields of MaterialUpdateForm.
KeptFields(row) ==
  [uploaded_by |-> row.uploaded_by, file |-> row.file, views |-> row.views,
   downloads |-> row.downloads, reports |-> row.reports, is_approved |-> row.is_approved]

\* C28: material_upload records the requester as uploaded_by; a material_edit
\* that went through, served alone, leaves the material's uploaded_by, file,
\* views, downloads, reports and is_approved, every other material and all
\* ratings, comments and saved records as they were; and the uploader of a
\* material is the same after every request.
C28_EditKeepsTheRest ==
  /\ Uploaded =>
       \E pk \in Pks : /\ ~MaterialExists(last.pre.material, pk)
                       /\ MaterialExists(material, pk)
                       /\ material[pk].uploaded_by = last.req.user
  /\ EditDone =>
       /\ MaterialExists(material, last.req.pk)
       /\ KeptFields(material[last.req.pk]) = KeptFields(last.pre.material[last.req.pk])
       /\ \A pk \in Pks \ {last.req.pk} : material[pk] = last.pre.material[pk]
       /\ ratings = last.pre.ratings
       /\ comments = last.pre.comments
       /\ saved = last.pre.saved
  /\ last # NoRow =>
       \A pk \in Pks :
         MaterialExists(last.pre.material, pk) /\ MaterialExists(material, pk)
           => material[pk].uploaded_by = last.pre.material[pk].uploaded_by

\* An edit changed the title, the description, the type and the tags of a
\* material that has a rating, a comment, a saved record or a view.
C28_Witness ==
  /\ EditDone
  /\ last.pre.material[last.req.pk].title = <<"a">> /\ material[last.req.pk].title = <<"b">>
  /\ material[last.req.pk].description # last.pre.material[last.req.pk].description
  /\ material[last.req.pk].material_type = "slide"
  /\ material[last.req.pk].tags = <<"t">>
  /\ BagCardinality(ratings) + BagCardinality(comments) + BagCardinality(saved)
       + material[last.req.pk].views > 0

\* --------------------------------------------------------- search and listing
\* materials[:10] of views.search
SearchLimit == 10

\* recent_materials[:6] of views.home
HomeLimit == 6

\* The store search, material_list and home are asked about: the first n primary
\* keys hold materials, uploaded in that order, at most two of them not
\* approved, the titles and types alternating, every third one tagged.
TitleOf(pk) == IF pk % 2 = 1 THEN <<"a">> ELSE <<"a", "B">>
TypeOf(pk) == IF pk % 2 = 1 THEN "note" ELSE "slide"
TagsOf(pk) == IF pk % 3 = 0 THEN <<"b">> ELSE <<>>

InitSearch ==
  /\ \E n \in 0..MaxListed :
       \E hidden \in {h \in SUBSET (1..n) : Cardinality(h) <= 2} :
         /\ material = [pk \in 1..MaxListed |->
                          IF pk <= n
                          THEN MaterialRow("u1", TitleOf(pk), TypeOf(pk), TagsOf(pk),
                                           pk \notin hidden)
                          ELSE NoRow]
         /\ nextPk = n + 1
  /\ ratings = EmptyBag
  /\ saved = EmptyBag
  /\ groups = [g \in GroupPks |-> NoRow]
  /\ memberships = EmptyBag
  /\ accounts = {[username |-> u, email |-> EmailOf(u)] : u \in Users}
  /\ profiles = SetToBag({NewProfile(u) : u \in Users})
  /\ subjects = Subjects
  /\ comments = EmptyBag
  /\ posts = [k \in PostPks |-> NoRow]
  /\ postComments = EmptyBag
  /\ hits = [pk \in Pks |-> 0]
  /\ rawSaved = {}
  /\ last = NoRow
  /\ pc = Idle
  /\ loc = NoLocals

\* The q parameter: absent, empty, or a text.
Queries == {NoText, <<>>, <<"a">>, <<"b">>}

\* The lower case of a character, as LIKE compares.
LowerChar(c) == IF c = "A" THEN "a" ELSE IF c = "B" THEN "b" ELSE c
Lower(text) == [i \in 1..Len(text) |-> LowerChar(text[i])]

\* field__icontains=q
Contains(text, q) ==
  \E i \in 0..(Len(text) - Len(q)) : Lower(SubSeq(text, i + 1, i + Len(q))) = Lower(q)

\* (mutant) the materials not filtered by is_approved.
ApprovedOrNot(mat) == {pk \in DOMAIN mat : MaterialExists(mat, pk)}

\* Material.objects.filter(is_approved=True)
Approved(mat) == {pk \in DOMAIN mat : MaterialExists(mat, pk) /\ mat[pk].is_approved}

\* The Q filter on the text of a material: title, description or tags contain q.
Matching(mat, q) ==
  {pk \in Approved(mat) : \/ Contains(mat[pk].title, q)
                          \/ Contains(mat[pk].description, q)
                          \/ Contains(mat[pk].tags, q)}

\* order_by('-upload_date')[:n]: the n rows uploaded last.
Recent(rows, n) == {pk \in rows : Cardinality({k \in rows : k > pk}) < n}

\* (mutant) the queryset not sliced.
SlicedWhole(rows, n) == {rows}

\* queryset[:n] of a queryset without an ordering: the database returns the rows
\* in an order of its choosing, so any n of them (all, when there are fewer).
Sliced(rows, n) ==
  {part \in SUBSET rows : Cardinality(part) = IF Cardinality(rows) < n THEN Cardinality(rows) ELSE n}

\* The record of a request that lists materials.
Listed(r, result) ==
  last' = [req |-> r, resp |-> "render", msg |-> Null, pre |-> Snapshot, prev |-> NoRow,
           materials |-> result]

\* views.search: request.GET.get('q', '')
Search(q) ==
  LET query == IF q = NoText THEN <<>> ELSE q IN
  /\ \E result \in Sliced(Matching(material, query), SearchLimit) :
       Listed(Req("search", Anonymous, Null, "GET", q), result)
  /\ UNCHANGED <<dbvars, pc, loc, hits, comments, more>>

\* views.material_list: the subject, type and q filters apply when they are
\* given and not empty.
MaterialList(subject, type, q) ==
  LET bySubject == IF subject \in {Null, ""} THEN Approved(material)
                   ELSE {pk \in Approved(material) : material[pk].subject = subject}
      byType == IF type \in {Null, ""} THEN bySubject
                ELSE {pk \in bySubject : material[pk].material_type = type}
      result == IF Truthy(q) THEN byType \cap Matching(material, q) ELSE byType IN
  /\ Listed(Req("material_list", Anonymous, Null, "GET",
                [subject |-> subject, type |-> type, q |-> q]), result)
  /\ UNCHANGED <<dbvars, pc, loc, hits, comments, more>>

\* views.home: the approved materials uploaded last (the posts and study groups
\* of the page are not followed).
Home ==
  /\ Listed(Req("home", Anonymous, Null, "GET", Null),
            Recent(Approved(material), HomeLimit))
  /\ UNCHANGED <<dbvars, pc, loc, hits, comments, more>>

NextSearch ==
  \/ \E q \in Queries : Search(q)
  \/ \E subject \in {Null, "", "s1", NoSubject}, type \in {Null, "note", "book"}, q \in Queries :
       MaterialList(subject, type, q)
  \/ Home

SpecSearch == InitSearch /\ [][NextSearch]_vars

\* ------------------------------------------------- search and listing: claims
\* The last request was a search with an empty query / a material_list without
\* filters.
EmptySearch ==
  last # NoRow /\ last.req.op = "search" /\ last.req.arg \in {NoText, <<>>}
PlainList ==
  /\ last # NoRow /\ last.req.op = "material_list"
  /\ last.req.arg.subject \in {Null, ""} /\ last.req.arg.type \in {Null, ""}
  /\ ~Truthy(last.req.arg.q)

\* C19 as stated: a search with an empty query and a material_list without
\* filters both return every approved material, however many there are.
C19_AllApproved ==
  (EmptySearch \/ PlainList) => last.materials = Approved(material)

\* C19, amended: material_list without filters returns every approved material;
\* a search with an empty query returns every approved material when there are
\* at most SearchLimit of them, and SearchLimit of them otherwise.
C19_AllApprovedUpToLimit ==
  /\ PlainList => last.materials = Approved(material)
  /\ EmptySearch =>
       /\ last.materials \subseteq Approved(material)
       /\ Cardinality(Approved(material)) <= SearchLimit => last.materials = Approved(material)
       /\ Cardinality(Approved(material)) > SearchLimit
            => Cardinality(last.materials) = SearchLimit

\* A search with an empty query on a store of more approved materials than the
\* limit.
C19_Witness ==
  /\ EmptySearch /\ last.req.arg = <<>>
  /\ Cardinality(Approved(material)) > SearchLimit
  /\ Cardinality(last.materials) = SearchLimit

\* The last request listed materials.
ListedMaterials == last # NoRow /\ last.req.op \in {"home", "material_list", "search"}

\* C27: a material that is not approved is never among the materials home,
\* material_list or search return, whatever the filters and the store.
C27_UnapprovedNeverListed ==
  ListedMaterials =>
    \A pk \in last.materials : MaterialExists(material, pk) /\ material[pk].is_approved

\* A search for "a" on a store holding a material that is not approved and has
\* "a" in its title returned other materials.
C27_Witness ==
  /\ ListedMaterials /\ last.req.op = "search" /\ last.req.arg = <<"a">>
  /\ \E pk \in DOMAIN material :
       /\ MaterialExists(material, pk) /\ ~material[pk].is_approved
       /\ Contains(material[pk].title, <<"a">>)
  /\ last.materials # {}

\* ------------------------------------------ study groups, concurrent requests
\* Three users exist: one to create a group, two to join it.
InitJoin ==
  /\ material = [pk \in Pks |-> NoRow]
  /\ nextPk = 1
  /\ ratings = EmptyBag
  /\ saved = EmptyBag
  /\ groups = [g \in GroupPks |-> NoRow]
  /\ memberships = EmptyBag
  /\ accounts = {[username |-> u, email |-> EmailOf(u)] : u \in Usernames}
  /\ profiles = SetToBag({NewProfile(u) : u \in Usernames})
  /\ subjects = Subjects
  /\ comments = EmptyBag
  /\ posts = [k \in PostPks |-> NoRow]
  /\ postComments = EmptyBag
  /\ hits = [pk \in Pks |-> 0]
  /\ rawSaved = {}
  /\ last = NoRow
  /\ pc = Idle
  /\ loc = NoLocals

\* The form of a group for two members.
GroupOfTwo == GroupForm("algo", "weekly", "s1", <<"2">>)

\* study_group_join, first query: get_object_or_404(StudyGroup, pk=pk).  A user
\* has one join under way at a time.
JoinLoad(p, u, g) ==
  LET r == Req("study_group_join", u, g, Null, Null) IN
  /\ pc[p] = "idle"
  /\ \A q \in Procs : IF pc[q] = "idle" THEN TRUE ELSE loc[q].req.user # u
  /\ IF GroupExists(groups, g)
     THEN /\ pc' = [pc EXCEPT ![p] = "join_count"]
          /\ loc' = [loc EXCEPT ![p] = [req |-> r, row |-> groups[g]]]
     ELSE /\ pc' = pc
          /\ loc' = [loc EXCEPT ![p] = Answer(r, "not_found", Null)]
  /\ UNCHANGED <<dbvars, last, hits, comments, more>>

\* study_group_join, second query: members.count(), compared with max_members
\* of the instance loaded.
JoinCount(p) ==
  /\ pc[p] = "join_count"
  /\ IF HasRoom(MemberCount(memberships, loc[p].req.pk), loc[p].row.max_members)
     THEN /\ pc' = [pc EXCEPT ![p] = "join_add"]
          /\ loc' = loc
     ELSE /\ pc' = [pc EXCEPT ![p] = "idle"]
          /\ loc' = [loc EXCEPT ![p] = Answer(loc[p].req, "redirect", "full")]
  /\ UNCHANGED <<dbvars, last, hits, comments, more>>

\* study_group_join, third query: members.add(request.user).
JoinAdd(p) ==
  /\ pc[p] = "join_add"
  /\ memberships' = MemberAdd(memberships, loc[p].req.pk, loc[p].req.user)
  /\ pc' = [pc EXCEPT ![p] = "idle"]
  /\ loc' = [loc EXCEPT ![p] = Answer(loc[p].req, "redirect", "joined")]
  /\ UNCHANGED <<material, nextPk, ratings, saved, groups, last, hits, comments, more>>

\* study_group_join requests served by two workers; groups for two members are
\* created in between.
NextJoinConc ==
  \/ StudyGroupCreate("u1", "POST", GroupOfTwo)
  \/ \E p \in Procs, u \in Usernames, g \in GroupPks \cup {BadGroup} : JoinLoad(p, u, g)
  \/ \E p \in Procs : JoinCount(p)
  \/ \E p \in Procs : JoinAdd(p)

SpecJoinConc == InitJoin /\ [][NextJoinConc]_vars

\* C23: whatever the interleaving of study_group_join requests by different
\* users, a group never has more members than its max_members: with one place
\* left and two users joining at once, at most one of them becomes a member.
C23_NeverOverMaxMembers ==
  \A g \in GroupPks :
    GroupExists(groups, g) => MemberCount(memberships, g) <= groups[g].max_members

\* ------------------------------------- material delete, concurrent requests
\* material_detail and material_edit requests served by two workers while the
\* uploader uploads and deletes.
NextDeleteConc ==
  \/ ConcMaterialUpload("u1")
  \/ \E pk \in Pks : ConcMaterialDelete("u1", pk)
  \/ \E p \in Procs, pk \in Pks : DetailLoad(p, Anonymous, pk)
  \/ \E p \in Procs : DetailSave(p)
  \/ \E p \in Procs, pk \in Pks, form \in EditForms : EditLoad(p, "u1", pk, "POST", form)
  \/ \E p \in Procs : EditSave(p)

SpecDeleteConc == Init /\ [][NextDeleteConc]_vars

\* C24: a material that material_delete has removed stays removed: no
\* material_detail or material_edit request that loaded it before the delete
\* brings the row back when it saves after the delete.
C24_DeletedStaysDeleted ==
  [][\A pk \in Pks : pk < nextPk /\ material[pk] = NoRow => material'[pk] = NoRow]_vars

\* ------------------------------------------ registration, concurrent requests
\* Two usernames nobody has yet, and complete forms for them.
NewUsernames == {"u3", "u4"}
ConcRegisterForms ==
  {FilledForm(u, e, "complexpassword123") : u \in NewUsernames, e \in Emails}

\* register, the queries of form.is_valid(): the lookups of clean_email and
\* clean_username.
RegValidate(p, form) ==
  LET r == Req("register", Anonymous, Null, "POST", form) IN
  /\ pc[p] = "idle"
  /\ IF RegisterFormValid(form)
     THEN /\ pc' = [pc EXCEPT ![p] = "reg_save"]
          /\ loc' = [loc EXCEPT ![p] = [req |-> r]]
     ELSE /\ pc' = pc
          /\ loc' = [loc EXCEPT ![p] = Answer(r, "render", Null)]
  /\ UNCHANGED <<dbvars, last, hits, comments, more>>

\* register, form.save(): the INSERT of the User, which the unique constraint on
\* username can refuse (nothing constrains email), and the post_save receivers.
RegSave(p) ==
  LET form == loc[p].req.arg IN
  /\ pc[p] = "reg_save"
  /\ pc' = [pc EXCEPT ![p] = "idle"]
  /\ IF UsernameTaken(accounts, form.username)
     THEN /\ loc' = [loc EXCEPT ![p] = Answer(loc[p].req, "error", "IntegrityError")]
          /\ UNCHANGED <<accounts, profiles>>
     ELSE /\ accounts' = accounts \cup {[username |-> form.username, email |-> form.email]}
          /\ profiles' = ProfilesAfterSave(ProfilesAfterSave(profiles, form.username, TRUE),
                                           form.username, FALSE)
          /\ loc' = [loc EXCEPT ![p] = Answer(loc[p].req, "redirect", Null)]
  /\ UNCHANGED <<dbvars, subjects, posts, postComments, rawSaved, last, hits, comments>>

\* register requests served by two workers, users removed in between.
NextRegisterConc ==
  \/ \E p \in Procs, form \in ConcRegisterForms : RegValidate(p, form)
  \/ \E p \in Procs : RegSave(p)
  \/ \E u \in NewUsernames : UserDelete(u)

SpecRegisterConc == Init /\ [][NextRegisterConc]_vars

\* C25: whatever the interleaving of two register requests submitting the same
\* e-mail address with different usernames, at most one creates a user: no two
\* users have the same e-mail address.
C25_EmailUniqueConcurrently ==
  \A a \in accounts : \A b \in accounts \ {a} : a.email # b.email

\* ------------------------------------------------------------ whole system
\* Every handler modelled, requests one at a time.
Next ==
  \/ NextSave \/ NextRate \/ NextGroups \/ NextViews
  \/ NextAccounts \/ NextSite \/ NextSearch

Spec == Init /\ [][Next]_vars

====
